---- MODULE Spec2Model ----
(***************************************************************************)
(* Block transfer and lifecycle protocol of pkg/block: Upload, Download,   *)
(* Delete, the three setMark operations and RemoveMark, run by client      *)
(* processes against one object store, together with the descriptor codec  *)
(* of pkg/block/metadata.  Every store call is one step, so that a         *)
(* failure, a cancellation or a crash can fall between any two calls.      *)
(***************************************************************************)
EXTENDS Integers, Sequences, FiniteSets, TLC

VARIABLES
    store,    \* the bucket: block id -> object name -> object
    fs,       \* per process: the local block directory (src) and the download directory (dst)
    now,      \* the wall clock, as last read
    counter,  \* the caller-supplied prometheus counters, by name
    pc,       \* per process: position inside the running operation, "idle" between operations
    op,       \* per process: the running (or last finished) operation and its arguments
    loc,      \* per process: the operation's local variables
    result,   \* per process: "running", "ok", or the error the operation returned
    log,      \* per process: the store calls the running (or last) operation has made, in order
    budget,   \* per process: how many more operations the caller will invoke
    prev      \* per process: the operation before the running one, and the store and the
              \* counters as they were when the running one was called

vars == <<store, fs, now, counter, pc, op, loc, result, log, budget, prev>>

----------------------------------------------------------------------------
(* Bounds of the model. *)

MaxClock == 2
MaxOps == 3

Procs == {"p1", "p2"}
Blocks == {"B1", "B2"}
NotABlockID == "not-a-ulid"
Contents == {"a", "bb"}
DetailsSet == {"d1", "d2"}

----------------------------------------------------------------------------
(* Names of the objects of a block. *)

MetaFilename == "meta.json"
IndexFilename == "index"
ChunksDirname == "chunks/"
DeletionMarkFilename == "deletion-mark.json"
NoCompactMarkFilename == "no-compact-mark.json"
NoDownsampleMarkFilename == "no-downsample-mark.json"

ChunkKeys == {"chunks/000001", "chunks/000002"}
MarkKeys == {DeletionMarkFilename, NoCompactMarkFilename, NoDownsampleMarkFilename}
TopFiles == {MetaFilename, IndexFilename} \cup MarkKeys
Keys == TopFiles \cup ChunkKeys

\* strings.Compare on the object names: the position in lexicographic order.
KeyOrder ==
    <<"chunks/000001", "chunks/000002", "deletion-mark.json", "index",
      "meta.json", "no-compact-mark.json", "no-downsample-mark.json">>

Rank(k) == CHOOSE i \in 1..Len(KeyOrder) : KeyOrder[i] = k

----------------------------------------------------------------------------
(* Objects: what a store key or a local path holds. *)

Absent == [kind |-> "absent"]
Corrupt == [kind |-> "corrupt"]
Data(c) == [kind |-> "data", bytes |-> c]
MetaObj(d) == [kind |-> "meta", doc |-> d]
MarkObj(id, version, time, reason, details) ==
    [kind |-> "mark", id |-> id, version |-> version, time |-> time,
     reason |-> reason, details |-> details]

NoFiles == [k \in Keys |-> Absent]
EmptyStore == [b \in Blocks |-> NoFiles]

\* A bug: the block id is left out of the object's path: everything lands under one prefix.
PutWithoutBlockID(s, id, k, obj) == [s EXCEPT !["B1"][k] = obj]

\* A bug: an upload to a name that holds an object leaves that object.
PutIfAbsent(s, id, k, obj) == IF s[id][k] # Absent THEN s ELSE [s EXCEPT ![id][k] = obj]

\* bkt.Upload: the object is stored under the name, over what was there.
Put(s, id, k, obj) == [s EXCEPT ![id][k] = obj]

\* A bug: a delete is acknowledged and the object left where it was.
RemoveNothing(s, id, k) == s

\* A bug: the marks as one state: deleting a mark clears the block's other marks too.
RemoveEveryMark(s, id, k) ==
    [s EXCEPT ![id] = [n \in Keys |-> IF n = k \/ (k \in MarkKeys /\ n \in MarkKeys)
                                       THEN Absent ELSE s[id][n]]]

Remove(s, id, k) == [s EXCEPT ![id][k] = Absent]
Exists(s, id, k) == s[id][k] # Absent

\* bkt.Iter on a prefix: the names directly under it, a sub-prefix as a name ending in "/".
IterBlock(s, id) ==
    {k \in TopFiles : Exists(s, id, k)}
        \cup (IF \E c \in ChunkKeys : Exists(s, id, c) THEN {ChunksDirname} ELSE {})

\* A bug: the listing of the chunks sub-prefix comes back empty.
IterChunksNone(s, id) == {}

\* bkt.Iter on the chunks sub-prefix.
IterChunks(s, id) == {c \in ChunkKeys : Exists(s, id, c)}

----------------------------------------------------------------------------
(* The descriptor codec (pkg/block/metadata). *)

TSDBVersion1 == 1
ThanosVersion1 == 1

NoneFunc == ""
SHA256Func == "SHA256"

NilLabels == [isNil |-> TRUE, kv |-> {}]
Labels(kv) == [isNil |-> FALSE, kv |-> kv]

\* The zero value of the Meta struct.
ZeroMeta ==
    [version |-> 0, thanosVersion |-> 0, labels |-> NilLabels,
     files |-> <<>>, uploadTime |-> 0]

\* json.Decoder.Decode into a Meta: an absent key leaves the field's zero value.
JSONDecode(obj) ==
    IF obj.kind # "meta"
    THEN [err |-> "invalid json", meta |-> ZeroMeta]
    ELSE [err |-> "",
          meta |-> [version |-> obj.doc.version,
                    thanosVersion |-> IF obj.doc.thanosVersion = {} THEN 0
                                      ELSE CHOOSE v \in obj.doc.thanosVersion : TRUE,
                    labels |-> obj.doc.labels,
                    files |-> IF obj.doc.files.present THEN obj.doc.files.list ELSE <<>>,
                    uploadTime |-> obj.doc.uploadTime]]

\* A bug: the Thanos section's version is not looked at, a nil labels map is returned as is.
ReadTopVersionOnly(obj) ==
    LET d == JSONDecode(obj)
    IN  IF d.err # "" THEN [err |-> d.err, meta |-> ZeroMeta]
        ELSE IF d.meta.version # TSDBVersion1
             THEN [err |-> "unexpected meta file version", meta |-> ZeroMeta]
        ELSE [err |-> "", meta |-> d.meta]

\* Read: decode, gate on the two versions, allocate the labels map.
Read(obj) ==
    LET d == JSONDecode(obj)
        m == d.meta
        version == IF m.thanosVersion = 0 THEN ThanosVersion1 ELSE m.thanosVersion
    IN  IF d.err # "" THEN [err |-> d.err, meta |-> ZeroMeta]
        ELSE IF m.version # TSDBVersion1
             THEN [err |-> "unexpected meta file version", meta |-> ZeroMeta]
        ELSE IF version # ThanosVersion1
             THEN [err |-> "unexpected meta file Thanos section version", meta |-> ZeroMeta]
        ELSE [err |-> "",
              meta |-> IF m.labels.isNil THEN [m EXCEPT !.labels = Labels({})] ELSE m]

\* ReadFromDir: open <dir>/meta.json, then Read.
ReadFromDir(dir) ==
    IF dir.files[MetaFilename] = Absent
    THEN [err |-> "open meta.json", meta |-> ZeroMeta]
    ELSE Read(dir.files[MetaFilename])

\* A bug: the encoder loses the labels.
WriteWithoutLabels(m) ==
    MetaObj([version |-> m.version,
             thanosVersion |-> IF m.thanosVersion = 0 THEN {} ELSE {m.thanosVersion},
             labels |-> NilLabels,
             files |-> [present |-> m.files # <<>>, list |-> m.files],
             uploadTime |-> m.uploadTime])

\* Meta.Write: the JSON encoding; omitempty drops a zero version and an empty files list.
Write(m) ==
    MetaObj([version |-> m.version,
             thanosVersion |-> IF m.thanosVersion = 0 THEN {} ELSE {m.thanosVersion},
             labels |-> m.labels,
             files |-> [present |-> m.files # <<>>, list |-> m.files],
             uploadTime |-> m.uploadTime])

----------------------------------------------------------------------------
(* File stats and hashes. *)

NilHash == [isNil |-> TRUE, func |-> NoneFunc, value |-> ""]

SizeOf(c) == IF c = "a" THEN 1 ELSE 2

Sha256Of(c) == IF c = "a" THEN "sha256:a" ELSE "sha256:bb"

\* metadata.CalculateHash of a local path: fails when the file cannot be opened.
CalculateHash(dir, relPath, hf) ==
    IF relPath \notin Keys \/ dir.files[relPath].kind # "data"
    THEN [err |-> "open", hash |-> NilHash]
    ELSE IF hf # SHA256Func
    THEN [err |-> "hash function not supported", hash |-> NilHash]
    ELSE [err |-> "",
          hash |-> [isNil |-> FALSE, func |-> hf, value |-> Sha256Of(dir.files[relPath].bytes)]]

\* ObjectHash.Equal.
HashEqual(h1, h2) == h1.func = h2.func /\ h1.value = h2.value

File(relPath, size, hash) == [relPath |-> relPath, sizeBytes |-> size, hash |-> hash]

\* sort.Slice by RelPath.
RECURSIVE SortByRelPath(_)
SortByRelPath(S) ==
    IF S = {} THEN <<>>
    ELSE LET f == CHOOSE x \in S : \A y \in S : Rank(x.relPath) <= Rank(y.relPath)
         IN  <<f>> \o SortByRelPath(S \ {f})

\* A directory entry that is itself a directory, and the size os.FileInfo gives for one.
Subdir == [kind |-> "dir"]
DirSize == 3

\* fi.Size() of a directory entry.
SizeOfEntry(obj) == IF obj.kind = "dir" THEN DirSize ELSE SizeOf(obj.bytes)

\* A bug: the size of the entry is not recorded.
StatEntryNoSize(dir, k, hf) ==
    File(k, 0,
         IF hf # NoneFunc /\ dir.files[k].kind # "dir"
         THEN CalculateHash(dir, k, hf).hash ELSE NilHash)

\* The manifest entry of one entry of the block directory: its size, and its hash when a
\* hash function is set and the entry is not a directory.
StatEntry(dir, k, hf) ==
    File(k, SizeOfEntry(dir.files[k]),
         IF hf # NoneFunc /\ dir.files[k].kind # "dir"
         THEN CalculateHash(dir, k, hf).hash ELSE NilHash)

\* GatherFileStats: one entry per chunk file, the index, meta.json; sorted by path.
GatherFileStats(dir, hf) ==
    IF ~dir.chunksDir
    THEN [err |-> "read dir chunks", files |-> <<>>]
    ELSE IF hf # NoneFunc /\ hf # SHA256Func
    THEN [err |-> "calculate hash", files |-> <<>>]
    ELSE IF dir.files[IndexFilename] = Absent
    THEN [err |-> "stat index", files |-> <<>>]
    ELSE IF dir.files[MetaFilename] = Absent
    THEN [err |-> "stat meta.json", files |-> <<>>]
    ELSE [err |-> "",
          files |-> SortByRelPath(
              {StatEntry(dir, c, hf) : c \in {c \in ChunkKeys : dir.files[c] # Absent}}
                  \cup {StatEntry(dir, IndexFilename, hf)}
                  \cup {File(MetaFilename, 0, NilHash)})]

----------------------------------------------------------------------------
(* Processes. *)

NoLoc ==
    [meta |-> ZeroMeta, todo |-> {}, sub |-> {}, ignored |-> {}, payload |-> Absent]

NoOp == [kind |-> "none", id |-> "B1"]

\* A local directory: its files by name, and meta.json.tmp beside them.
NoDir ==
    [stat |-> "missing", name |-> NotABlockID, chunksDir |-> FALSE, files |-> NoFiles,
     tmp |-> Absent]
EmptyDir ==
    [stat |-> "dir", name |-> "dst", chunksDir |-> FALSE, files |-> NoFiles, tmp |-> Absent]

Call(c, id, k, ok) == [call |-> c, id |-> id, key |-> k, ok |-> ok]

\* The operation of p returns err ("ok" for nil).
Finish(p, err) ==
    /\ pc' = [pc EXCEPT ![p] = "idle"]
    /\ result' = [result EXCEPT ![p] = err]

\* p starts operation o: one more of its budget is used, the last operation is remembered.
Begin(p, o) ==
    /\ pc[p] = "idle"
    /\ budget[p] > 0
    /\ budget' = [budget EXCEPT ![p] = @ - 1]
    /\ op' = [op EXCEPT ![p] = o]
    /\ prev' = [prev EXCEPT ![p] = [op |-> op[p], result |-> result[p], store |-> store,
                                    counter |-> counter]]

\* time.Now(): the clock never goes back.
ReadClock(t) == t \in now..MaxClock /\ now' = t

----------------------------------------------------------------------------
(* Upload. *)

\* A bug: the label check left out.
LabelsNeverMissing(meta, checkExternalLabels) == FALSE

\* The external-labels check of a producer's upload.
LabelsMissing(meta, checkExternalLabels) == checkExternalLabels /\ meta.labels.kv = {}

\* upload, up to GatherFileStats: everything it checks before the first store call.
UploadValidate(dir, hf, checkExternalLabels) ==
    LET r == ReadFromDir(dir)
        g == GatherFileStats(dir, hf)
    IN  IF dir.stat = "missing" THEN [err |-> "stat", meta |-> ZeroMeta]
        ELSE IF dir.stat # "dir" THEN [err |-> "is not a directory", meta |-> ZeroMeta]
        ELSE IF dir.name \notin Blocks THEN [err |-> "not a block dir", meta |-> ZeroMeta]
        ELSE IF r.err # "" THEN [err |-> "read meta", meta |-> ZeroMeta]
        ELSE IF LabelsMissing(r.meta, checkExternalLabels)
             THEN [err |-> "empty external labels are not allowed for Thanos block.",
                   meta |-> ZeroMeta]
        ELSE IF g.err # "" THEN [err |-> "gather meta file stats", meta |-> ZeroMeta]
        ELSE [err |-> "", meta |-> [r.meta EXCEPT !.files = g.files]]

\* The chunk files objstore.UploadDir finds under <bdir>/chunks.
LocalChunks(dir) == {c \in ChunkKeys : dir.files[c] # Absent}

\* A bug: the descriptor goes up right after the chunks, the index never.
AfterChunksSkipIndex(todo) == IF todo = {} THEN "uploadMeta" ELSE "uploadChunks"

\* A bug: the chunk upload stops after its first file.
AfterChunksFirstOnly(todo) == "uploadIndex"

\* upload's step after UploadDir: the index, once every chunk file is up.
AfterChunks(todo) == IF todo = {} THEN "uploadIndex" ELSE "uploadChunks"

\* Upload / UploadPromBlock is called: validation, then on to the chunks.
StartUpload(p) ==
    \E hf \in {NoneFunc, SHA256Func}, checkExternalLabels \in BOOLEAN :
        LET dir == fs[p].src
            v == UploadValidate(dir, hf, checkExternalLabels)
        IN  /\ Begin(p, [kind |-> "Upload", id |-> dir.name, hf |-> hf,
                         checkExternalLabels |-> checkExternalLabels])
            /\ log' = [log EXCEPT ![p] = <<>>]
            /\ IF v.err # ""
               THEN /\ Finish(p, v.err)
                    /\ loc' = [loc EXCEPT ![p] = NoLoc]
               ELSE /\ pc' = [pc EXCEPT ![p] = AfterChunks(LocalChunks(dir))]
                    /\ result' = [result EXCEPT ![p] = "running"]
                    /\ loc' = [loc EXCEPT ![p] =
                                   [NoLoc EXCEPT !.meta = v.meta, !.todo = LocalChunks(dir)]]
            /\ UNCHANGED <<store, fs, now, counter>>

\* objstore.UploadDir of the chunks directory: one bkt.Upload per file; the first failure ends it.
UploadChunk(p) ==
    /\ pc[p] = "uploadChunks"
    /\ \E c \in loc[p].todo, ok \in BOOLEAN :
        /\ log' = [log EXCEPT ![p] = Append(@, Call("upload", op[p].id, c, ok))]
        /\ IF ok
           THEN /\ store' = Put(store, op[p].id, c, fs[p].src.files[c])
                /\ loc' = [loc EXCEPT ![p].todo = @ \ {c}]
                /\ pc' = [pc EXCEPT ![p] = AfterChunks(loc[p].todo \ {c})]
                /\ UNCHANGED result
           ELSE /\ Finish(p, "upload chunks")
                /\ UNCHANGED <<store, loc>>
    /\ UNCHANGED <<fs, now, counter, op, budget, prev>>

\* objstore.UploadFile of the index.
UploadIndex(p) ==
    /\ pc[p] = "uploadIndex"
    /\ \E ok \in BOOLEAN :
        /\ log' = [log EXCEPT ![p] = Append(@, Call("upload", op[p].id, IndexFilename, ok))]
        /\ IF ok
           THEN /\ store' = Put(store, op[p].id, IndexFilename, fs[p].src.files[IndexFilename])
                /\ pc' = [pc EXCEPT ![p] = "uploadMeta"]
                /\ UNCHANGED result
           ELSE /\ Finish(p, "upload index")
                /\ UNCHANGED store
    /\ UNCHANGED <<fs, now, counter, op, loc, budget, prev>>

\* The descriptor, stamped with the upload time and encoded, goes up last.
UploadMeta(p) ==
    /\ pc[p] = "uploadMeta"
    /\ \E t \in 1..MaxClock, ok \in BOOLEAN :
        /\ ReadClock(t)
        /\ loc' = [loc EXCEPT ![p].meta.uploadTime = t]
        /\ log' = [log EXCEPT ![p] = Append(@, Call("upload", op[p].id, MetaFilename, ok))]
        /\ IF ok
           THEN /\ store' = Put(store, op[p].id, MetaFilename,
                                Write([loc[p].meta EXCEPT !.uploadTime = t]))
                /\ Finish(p, "ok")
           ELSE /\ Finish(p, "upload meta file")
                /\ UNCHANGED store
    /\ UNCHANGED <<fs, counter, op, budget, prev>>

----------------------------------------------------------------------------
(* Download. *)

\* A bug: a local file is kept whenever it can be hashed, matching or not.
IgnoredPathsAnyLocal(dst, files) ==
    {MetaFilename} \cup
    {files[i].relPath : i \in {i \in 1..Len(files) :
        /\ ~(files[i].hash.isNil \/ files[i].hash.func = NoneFunc \/ files[i].relPath = "")
        /\ CalculateHash(dst, files[i].relPath, files[i].hash.func).err = ""}}

\* A bug: every manifest entry with a hash is taken as present, the local file unseen.
IgnoredPathsAllHashed(dst, files) ==
    {MetaFilename} \cup
    {files[i].relPath : i \in {i \in 1..Len(files) :
        ~(files[i].hash.isNil \/ files[i].hash.func = NoneFunc \/ files[i].relPath = "")}}

\* The manifest entries whose local file already has the recorded hash.
IgnoredPaths(dst, files) ==
    {MetaFilename} \cup
    {files[i].relPath : i \in {i \in 1..Len(files) :
        /\ ~(files[i].hash.isNil \/ files[i].hash.func = NoneFunc \/ files[i].relPath = "")
        /\ LET h == CalculateHash(dst, files[i].relPath, files[i].hash.func)
           IN  h.err = "" /\ HashEqual(files[i].hash, h.hash)}}

\* A bug: a file that is already in the directory is not fetched again.
DownloadFileKeepsExisting(dir, k, obj) ==
    IF dir.files[k] # Absent THEN dir ELSE [dir EXCEPT !.files[k] = obj]

\* objstore.DownloadFile: the object is written to its path in the directory, over what
\* was there.
DownloadFile(dir, k, obj) == [dir EXCEPT !.files[k] = obj]

\* Download is called: os.MkdirAll(dst).
StartDownload(p, id) ==
    /\ Begin(p, [kind |-> "Download", id |-> id, dst0 |-> fs[p].dst])
    /\ log' = [log EXCEPT ![p] = <<>>]
    /\ loc' = [loc EXCEPT ![p] = NoLoc]
    /\ \E ok \in BOOLEAN :
        IF ok
        THEN /\ pc' = [pc EXCEPT ![p] = "downloadMeta"]
             /\ result' = [result EXCEPT ![p] = "running"]
        ELSE Finish(p, "create dir")
    /\ UNCHANGED <<store, fs, now, counter>>

\* objstore.DownloadFile of meta.json, ReadFromDir, and the hashing of the local files.
DownloadMetaFile(p) ==
    /\ pc[p] = "downloadMeta"
    /\ \E ok \in BOOLEAN :
        LET id == op[p].id
            got == ok /\ Exists(store, id, MetaFilename)
            dst == DownloadFile(fs[p].dst, MetaFilename, store[id][MetaFilename])
            r == ReadFromDir(dst)
        IN  /\ log' = [log EXCEPT ![p] = Append(@, Call("get", id, MetaFilename, got))]
            /\ IF ~got
               THEN /\ Finish(p, "get meta.json")
                    /\ UNCHANGED <<fs, loc>>
               ELSE /\ fs' = [fs EXCEPT ![p].dst = dst]
                    /\ IF r.err # ""
                       THEN /\ Finish(p, "reading meta")
                            /\ UNCHANGED loc
                       ELSE /\ pc' = [pc EXCEPT ![p] = "downloadDir"]
                            /\ loc' = [loc EXCEPT ![p] =
                                   [NoLoc EXCEPT !.meta = r.meta,
                                                 !.ignored = IgnoredPaths(dst, r.meta.files)]]
                            /\ UNCHANGED result
    /\ UNCHANGED <<store, now, counter, op, budget, prev>>

\* objstore.DownloadDir: the listing of the block's prefix.
DownloadDirIter(p) ==
    /\ pc[p] = "downloadDir"
    /\ \E ok \in BOOLEAN :
        /\ log' = [log EXCEPT ![p] = Append(@, Call("iter", op[p].id, "", ok))]
        /\ IF ok
           THEN /\ pc' = [pc EXCEPT ![p] = "downloadEntries"]
                /\ loc' = [loc EXCEPT ![p].todo = IterBlock(store, op[p].id)]
                /\ UNCHANGED result
           ELSE /\ Finish(p, "iter")
                /\ UNCHANGED loc
    /\ UNCHANGED <<store, fs, now, counter, op, budget, prev>>

\* objstore.DownloadDir on one listed name: a sub-prefix is entered (its directory created,
\* its names listed), an ignored path is passed over, anything else is fetched.
DownloadEntry(p) ==
    /\ pc[p] = "downloadEntries"
    /\ \E n \in loc[p].todo, ok \in BOOLEAN :
        LET id == op[p].id
        IN  IF n = ChunksDirname
            THEN /\ log' = [log EXCEPT ![p] = Append(@, Call("iter", id, n, ok))]
                 /\ fs' = [fs EXCEPT ![p].dst.chunksDir = TRUE]
                 /\ IF ok
                    THEN /\ loc' = [loc EXCEPT ![p].todo = (@ \ {n}) \cup IterChunks(store, id)]
                         /\ UNCHANGED <<pc, result>>
                    ELSE /\ Finish(p, "iter")
                         /\ UNCHANGED loc
            ELSE IF n \in loc[p].ignored
            THEN /\ ok
                 /\ loc' = [loc EXCEPT ![p].todo = @ \ {n}]
                 /\ UNCHANGED <<fs, log, pc, result>>
            ELSE LET got == ok /\ Exists(store, id, n)
                 IN  /\ log' = [log EXCEPT ![p] = Append(@, Call("get", id, n, got))]
                     /\ IF got
                        THEN /\ fs' = [fs EXCEPT ![p].dst.files[n] = store[id][n]]
                             /\ loc' = [loc EXCEPT ![p].todo = @ \ {n}]
                             /\ UNCHANGED <<pc, result>>
                        ELSE /\ Finish(p, "get")
                             /\ UNCHANGED <<fs, loc>>
    /\ UNCHANGED <<store, now, counter, op, budget, prev>>

\* A bug: a chunks directory that is missing is left missing.
ChunksDirLeftAsIs(dst) == dst

\* os.Stat of <dst>/chunks, and os.Mkdir when it does not exist.
EnsureChunksDir(dst) == [dst EXCEPT !.chunksDir = TRUE]

\* Every listed name is done: the chunks directory is created when it is still missing;
\* an error of os.Stat or os.Mkdir is returned.
DownloadFinish(p) ==
    /\ pc[p] = "downloadEntries"
    /\ loc[p].todo = {}
    /\ \E ok \in BOOLEAN :
        IF ok
        THEN /\ fs' = [fs EXCEPT ![p].dst = EnsureChunksDir(fs[p].dst)]
             /\ Finish(p, "ok")
        ELSE /\ Finish(p, "chunks dir")
             /\ UNCHANGED fs
    /\ UNCHANGED <<store, now, counter, op, loc, log, budget, prev>>

----------------------------------------------------------------------------
(* DownloadMeta. *)

\* DownloadMeta is called.
StartDownloadMeta(p, id) ==
    /\ Begin(p, [kind |-> "DownloadMeta", id |-> id])
    /\ pc' = [pc EXCEPT ![p] = "getMeta"]
    /\ result' = [result EXCEPT ![p] = "running"]
    /\ log' = [log EXCEPT ![p] = <<>>]
    /\ loc' = [loc EXCEPT ![p] = NoLoc]
    /\ UNCHANGED <<store, fs, now, counter>>

\* bkt.Get of meta.json, io.ReadAll, json.Unmarshal into a Meta; the Meta is returned.
DownloadMetaGet(p) ==
    /\ pc[p] = "getMeta"
    /\ \E ok \in BOOLEAN :
        LET id == op[p].id
            got == ok /\ Exists(store, id, MetaFilename)
            d == JSONDecode(store[id][MetaFilename])
        IN  /\ log' = [log EXCEPT ![p] = Append(@, Call("get", id, MetaFilename, got))]
            /\ IF ~got
               THEN /\ Finish(p, "meta.json bkt get")
                    /\ UNCHANGED loc
               ELSE IF d.err # ""
               THEN /\ Finish(p, "unmarshal meta.json")
                    /\ UNCHANGED loc
               ELSE /\ Finish(p, "ok")
                    /\ loc' = [loc EXCEPT ![p].meta = d.meta]
    /\ UNCHANGED <<store, fs, now, counter, op, budget, prev>>

----------------------------------------------------------------------------
(* Delete. *)

\* A bug: the descriptor is left for the recursive pass, which keeps it.
AfterMetaExistsNoDelete(ok) == "deleteIter"

\* Delete's step after the existence check of meta.json.
AfterMetaExists(ok) == IF ok THEN "deleteMeta" ELSE "deleteIter"

\* A bug: the recursive pass spares only meta.json.
KeepMetaOnly(name) == name = MetaFilename

\* A bug: the recursive pass spares only deletion-mark.json.
KeepMarkOnly(name) == name = DeletionMarkFilename

\* The keep function Delete hands to deleteDirRec.
Keep(name) == name = MetaFilename \/ name = DeletionMarkFilename

\* Delete is called.
StartDelete(p, id) ==
    /\ Begin(p, [kind |-> "Delete", id |-> id])
    /\ pc' = [pc EXCEPT ![p] = "deleteExistsMeta"]
    /\ result' = [result EXCEPT ![p] = "running"]
    /\ log' = [log EXCEPT ![p] = <<>>]
    /\ loc' = [loc EXCEPT ![p] = NoLoc]
    /\ UNCHANGED <<store, fs, now, counter>>

\* bkt.Exists(metaFile).
DeleteExistsMeta(p) ==
    /\ pc[p] = "deleteExistsMeta"
    /\ \E ok \in BOOLEAN :
        /\ log' = [log EXCEPT ![p] = Append(@, Call("exists", op[p].id, MetaFilename, ok))]
        /\ IF ok
           THEN /\ pc' = [pc EXCEPT ![p] =
                              AfterMetaExists(Exists(store, op[p].id, MetaFilename))]
                /\ UNCHANGED result
           ELSE Finish(p, "stat meta.json")
    /\ UNCHANGED <<store, fs, now, counter, op, loc, budget, prev>>

\* bkt.Delete(metaFile).
DeleteMeta(p) ==
    /\ pc[p] = "deleteMeta"
    /\ \E ok \in BOOLEAN :
        /\ log' = [log EXCEPT ![p] = Append(@, Call("delete", op[p].id, MetaFilename, ok))]
        /\ IF ok
           THEN /\ store' = Remove(store, op[p].id, MetaFilename)
                /\ pc' = [pc EXCEPT ![p] = "deleteIter"]
                /\ UNCHANGED result
           ELSE /\ Finish(p, "delete meta.json")
                /\ UNCHANGED store
    /\ UNCHANGED <<fs, now, counter, op, loc, budget, prev>>

\* deleteDirRec on the block's prefix: bkt.Iter lists the names under it.
DeleteIter(p) ==
    /\ pc[p] = "deleteIter"
    /\ \E ok \in BOOLEAN :
        /\ log' = [log EXCEPT ![p] = Append(@, Call("iter", op[p].id, "", ok))]
        /\ IF ok
           THEN /\ pc' = [pc EXCEPT ![p] = "deleteEntries"]
                /\ loc' = [loc EXCEPT ![p].todo = IterBlock(store, op[p].id)]
                /\ UNCHANGED result
           ELSE /\ Finish(p, "iter")
                /\ UNCHANGED loc
    /\ UNCHANGED <<store, fs, now, counter, op, budget, prev>>

\* The same bkt.Iter on a store that lists after write with a delay: the listing is the one
\* of the store as it was when Delete was called, the deleted meta.json still in it.
DeleteIterStale(p) ==
    /\ pc[p] = "deleteIter"
    /\ IterBlock(prev[p].store, op[p].id) # IterBlock(store, op[p].id)
    /\ log' = [log EXCEPT ![p] = Append(@, Call("iter", op[p].id, "", TRUE))]
    /\ pc' = [pc EXCEPT ![p] = "deleteEntries"]
    /\ loc' = [loc EXCEPT ![p].todo = IterBlock(prev[p].store, op[p].id)]
    /\ UNCHANGED <<store, fs, now, counter, op, budget, prev, result>>

\* deleteDirRec's callback on one listed name: a sub-prefix is listed and finished before
\* the next name, a kept name is passed over, anything else is deleted.
DeleteEntry(p) ==
    /\ pc[p] = "deleteEntries"
    /\ \E n \in (IF loc[p].sub # {} THEN loc[p].sub ELSE loc[p].todo), ok \in BOOLEAN :
        LET id == op[p].id
        IN  IF n = ChunksDirname
            THEN /\ log' = [log EXCEPT ![p] = Append(@, Call("iter", id, n, ok))]
                 /\ IF ok
                    THEN /\ loc' = [loc EXCEPT ![p].todo = @ \ {n},
                                               ![p].sub = IterChunks(store, id)]
                         /\ UNCHANGED <<pc, result>>
                    ELSE /\ Finish(p, "iter")
                         /\ UNCHANGED loc
                 /\ UNCHANGED store
            ELSE IF Keep(n)
            THEN /\ ok
                 /\ loc' = [loc EXCEPT ![p].todo = @ \ {n}]
                 /\ UNCHANGED <<store, log, pc, result>>
            ELSE /\ log' = [log EXCEPT ![p] = Append(@, Call("delete", id, n, ok))]
                 /\ IF ok
                    THEN /\ store' = Remove(store, id, n)
                         /\ loc' = [loc EXCEPT ![p].todo = @ \ {n}, ![p].sub = @ \ {n}]
                         /\ UNCHANGED <<pc, result>>
                    ELSE /\ Finish(p, "delete")
                         /\ UNCHANGED <<store, loc>>
    /\ UNCHANGED <<fs, now, counter, op, budget, prev>>

\* The recursive pass is through: bkt.Exists(deletionMarkFile).
DeleteExistsMark(p) ==
    /\ pc[p] = "deleteEntries"
    /\ loc[p].todo = {} /\ loc[p].sub = {}
    /\ \E ok \in BOOLEAN :
        /\ log' = [log EXCEPT ![p] =
                       Append(@, Call("exists", op[p].id, DeletionMarkFilename, ok))]
        /\ IF ~ok THEN Finish(p, "stat deletion-mark.json")
           ELSE IF Exists(store, op[p].id, DeletionMarkFilename)
           THEN /\ pc' = [pc EXCEPT ![p] = "deleteMark"]
                /\ UNCHANGED result
           ELSE Finish(p, "ok")
    /\ UNCHANGED <<store, fs, now, counter, op, loc, budget, prev>>

\* bkt.Delete(deletionMarkFile), the last call.
DeleteMark(p) ==
    /\ pc[p] = "deleteMark"
    /\ \E ok \in BOOLEAN :
        /\ log' = [log EXCEPT ![p] =
                       Append(@, Call("delete", op[p].id, DeletionMarkFilename, ok))]
        /\ IF ok
           THEN /\ store' = Remove(store, op[p].id, DeletionMarkFilename)
                /\ Finish(p, "ok")
           ELSE /\ Finish(p, "delete deletion-mark.json")
                /\ UNCHANGED store
    /\ UNCHANGED <<fs, now, counter, op, loc, budget, prev>>

----------------------------------------------------------------------------
(* The marks. *)

DeletionMarkVersion1 == 1

\* A bug: the existence check answers "absent" whatever the store holds.
MarkNeverExists(s, id, m) == FALSE

\* setMark's existence check of the mark file.
MarkExists(s, id, m) == Exists(s, id, m)

\* A bug: the existence check answers "present" whatever the store holds.
MarkedFileAlwaysExists(s, id, m) == TRUE

\* RemoveMark's existence check of the marked file.
MarkedFileExists(s, id, m) == Exists(s, id, m)

\* MarkForDeletion, MarkForNoCompact or MarkForNoDownsample (by the mark's file name) is called.
StartSetMark(p, id, m, reason, details) ==
    /\ Begin(p, [kind |-> "SetMark", id |-> id, key |-> m, reason |-> reason,
                 details |-> details])
    /\ pc' = [pc EXCEPT ![p] = "markExists"]
    /\ result' = [result EXCEPT ![p] = "running"]
    /\ log' = [log EXCEPT ![p] = <<>>]
    /\ loc' = [loc EXCEPT ![p] = NoLoc]
    /\ UNCHANGED <<store, fs, now, counter>>

\* bkt.Exists on the mark; when it is absent the mark is built with the current time.
SetMarkExists(p) ==
    /\ pc[p] = "markExists"
    /\ \E ok \in BOOLEAN, t \in 1..MaxClock :
        /\ log' = [log EXCEPT ![p] = Append(@, Call("exists", op[p].id, op[p].key, ok))]
        /\ IF ~ok
           THEN /\ t = now
                /\ Finish(p, "check exists")
                /\ UNCHANGED <<loc, now>>
           ELSE IF MarkExists(store, op[p].id, op[p].key)
           THEN /\ t = now
                /\ Finish(p, "ok")
                /\ UNCHANGED <<loc, now>>
           ELSE /\ ReadClock(t)
                /\ loc' = [loc EXCEPT ![p].payload =
                               MarkObj(op[p].id, DeletionMarkVersion1, t, op[p].reason,
                                       op[p].details)]
                /\ pc' = [pc EXCEPT ![p] = "markUpload"]
                /\ UNCHANGED result
    /\ UNCHANGED <<store, fs, counter, op, budget, prev>>

\* bkt.Upload of the mark, then the counter.
SetMarkUpload(p) ==
    /\ pc[p] = "markUpload"
    /\ \E ok \in BOOLEAN :
        /\ log' = [log EXCEPT ![p] = Append(@, Call("upload", op[p].id, op[p].key, ok))]
        /\ IF ok
           THEN /\ store' = Put(store, op[p].id, op[p].key, loc[p].payload)
                /\ counter' = [counter EXCEPT ![op[p].key] = @ + 1]
                /\ Finish(p, "ok")
           ELSE /\ Finish(p, "upload file")
                /\ UNCHANGED <<store, counter>>
    /\ UNCHANGED <<fs, now, op, loc, budget, prev>>

\* RemoveMark is called.
StartRemoveMark(p, id, m) ==
    /\ Begin(p, [kind |-> "RemoveMark", id |-> id, key |-> m])
    /\ pc' = [pc EXCEPT ![p] = "removeExists"]
    /\ result' = [result EXCEPT ![p] = "running"]
    /\ log' = [log EXCEPT ![p] = <<>>]
    /\ loc' = [loc EXCEPT ![p] = NoLoc]
    /\ UNCHANGED <<store, fs, now, counter>>

\* bkt.Exists(markedFile).
RemoveMarkExists(p) ==
    /\ pc[p] = "removeExists"
    /\ \E ok \in BOOLEAN :
        /\ log' = [log EXCEPT ![p] = Append(@, Call("exists", op[p].id, op[p].key, ok))]
        /\ IF ~ok THEN Finish(p, "check exists")
           ELSE IF ~MarkedFileExists(store, op[p].id, op[p].key) THEN Finish(p, "ok")
           ELSE /\ pc' = [pc EXCEPT ![p] = "removeDelete"]
                /\ UNCHANGED result
    /\ UNCHANGED <<store, fs, now, counter, op, loc, budget, prev>>

\* bkt.Delete(markedFile), then the counter.
RemoveMarkDelete(p) ==
    /\ pc[p] = "removeDelete"
    /\ \E ok \in BOOLEAN :
        /\ log' = [log EXCEPT ![p] = Append(@, Call("delete", op[p].id, op[p].key, ok))]
        /\ IF ok
           THEN /\ store' = Remove(store, op[p].id, op[p].key)
                /\ counter' = [counter EXCEPT !["removeMark"] = @ + 1]
                /\ Finish(p, "ok")
           ELSE /\ Finish(p, "delete file")
                /\ UNCHANGED <<store, counter>>
    /\ UNCHANGED <<fs, now, op, loc, budget, prev>>

----------------------------------------------------------------------------
(* The local descriptor file: Meta.WriteToDir and ReadFromDir on a block directory. *)

TmpFilename == "meta.json.tmp"

\* A bug: the temporary file is closed and renamed without having been synced.
WriteToDirNextNoSync(step) ==
    CASE step = "createTmp" -> "writeTmp"
      [] step = "writeTmp" -> "closeTmp"
      [] step = "syncTmp" -> "closeTmp"
      [] step = "closeTmp" -> "removeTarget"
      [] step = "removeTarget" -> "rename"
      [] step = "rename" -> "syncDir"

\* The step WriteToDir and renameFile go on to when a step has succeeded.
WriteToDirNext(step) ==
    CASE step = "createTmp" -> "writeTmp"
      [] step = "writeTmp" -> "syncTmp"
      [] step = "syncTmp" -> "closeTmp"
      [] step = "closeTmp" -> "removeTarget"
      [] step = "removeTarget" -> "rename"
      [] step = "rename" -> "syncDir"

\* WriteToDir is called: os.Create(tmp) leaves an empty meta.json.tmp.
StartWriteToDir(p, m) ==
    /\ Begin(p, [kind |-> "WriteToDir", id |-> "B1", meta |-> m,
                 old |-> fs[p].src.files[MetaFilename]])
    /\ loc' = [loc EXCEPT ![p] = NoLoc]
    /\ \E ok \in BOOLEAN :
        /\ log' = [log EXCEPT ![p] = <<Call("create", "B1", TmpFilename, ok)>>]
        /\ IF ok
           THEN /\ fs' = [fs EXCEPT ![p].src.tmp = Corrupt]
                /\ pc' = [pc EXCEPT ![p] = WriteToDirNext("createTmp")]
                /\ result' = [result EXCEPT ![p] = "running"]
           ELSE /\ Finish(p, "create tmp")
                /\ UNCHANGED fs
    /\ UNCHANGED <<store, now, counter>>

\* m.Write(f): the encoding goes into the temporary file; a failure leaves it partial.
WriteTmp(p) ==
    /\ pc[p] = "writeTmp"
    /\ \E ok \in BOOLEAN :
        /\ log' = [log EXCEPT ![p] = Append(@, Call("write", "B1", TmpFilename, ok))]
        /\ IF ok
           THEN /\ fs' = [fs EXCEPT ![p].src.tmp = Write(op[p].meta)]
                /\ pc' = [pc EXCEPT ![p] = WriteToDirNext("writeTmp")]
                /\ UNCHANGED result
           ELSE /\ Finish(p, "write tmp")
                /\ UNCHANGED fs
    /\ UNCHANGED <<store, now, counter, op, loc, budget, prev>>

\* f.Sync().
SyncTmp(p) ==
    /\ pc[p] = "syncTmp"
    /\ \E ok \in BOOLEAN :
        /\ log' = [log EXCEPT ![p] = Append(@, Call("sync", "B1", TmpFilename, ok))]
        /\ IF ok
           THEN /\ pc' = [pc EXCEPT ![p] = WriteToDirNext("syncTmp")]
                /\ UNCHANGED result
           ELSE Finish(p, "sync tmp")
    /\ UNCHANGED <<store, fs, now, counter, op, loc, budget, prev>>

\* f.Close().
CloseTmp(p) ==
    /\ pc[p] = "closeTmp"
    /\ \E ok \in BOOLEAN :
        /\ log' = [log EXCEPT ![p] = Append(@, Call("close", "B1", TmpFilename, ok))]
        /\ IF ok
           THEN /\ pc' = [pc EXCEPT ![p] = WriteToDirNext("closeTmp")]
                /\ UNCHANGED result
           ELSE Finish(p, "close tmp")
    /\ UNCHANGED <<store, fs, now, counter, op, loc, budget, prev>>

\* renameFile: os.RemoveAll(to).
RenameRemoveAll(p) ==
    /\ pc[p] = "removeTarget"
    /\ \E ok \in BOOLEAN :
        /\ log' = [log EXCEPT ![p] = Append(@, Call("removeAll", "B1", MetaFilename, ok))]
        /\ IF ok
           THEN /\ fs' = [fs EXCEPT ![p].src.files[MetaFilename] = Absent]
                /\ pc' = [pc EXCEPT ![p] = WriteToDirNext("removeTarget")]
                /\ UNCHANGED result
           ELSE /\ Finish(p, "remove target")
                /\ UNCHANGED fs
    /\ UNCHANGED <<store, now, counter, op, loc, budget, prev>>

\* renameFile: os.Rename(from, to).
RenameRename(p) ==
    /\ pc[p] = "rename"
    /\ \E ok \in BOOLEAN :
        /\ log' = [log EXCEPT ![p] = Append(@, Call("rename", "B1", MetaFilename, ok))]
        /\ IF ok
           THEN /\ fs' = [fs EXCEPT ![p].src.files[MetaFilename] = fs[p].src.tmp,
                                    ![p].src.tmp = Absent]
                /\ pc' = [pc EXCEPT ![p] = WriteToDirNext("rename")]
                /\ UNCHANGED result
           ELSE /\ Finish(p, "rename")
                /\ UNCHANGED fs
    /\ UNCHANGED <<store, now, counter, op, loc, budget, prev>>

\* renameFile: the parent directory is opened, synced and closed.
RenameSyncDir(p) ==
    /\ pc[p] = "syncDir"
    /\ \E ok \in BOOLEAN :
        /\ log' = [log EXCEPT ![p] = Append(@, Call("syncDir", "B1", "", ok))]
        /\ Finish(p, IF ok THEN "ok" ELSE "sync dir")
    /\ UNCHANGED <<store, fs, now, counter, op, loc, budget, prev>>

\* ReadFromDir is called on the block directory; the descriptor it returns is kept.
CallReadFromDir(p) ==
    LET r == ReadFromDir(fs[p].src)
    IN  /\ Begin(p, [kind |-> "ReadFromDir", id |-> "B1"])
        /\ log' = [log EXCEPT ![p] = <<>>]
        /\ loc' = [loc EXCEPT ![p] = [NoLoc EXCEPT !.meta = r.meta]]
        /\ Finish(p, IF r.err = "" THEN "ok" ELSE r.err)
        /\ UNCHANGED <<store, fs, now, counter>>

\* GatherFileStats is called on the block directory; the manifest it returns is kept.
CallGatherFileStats(p, hf) ==
    LET g == GatherFileStats(fs[p].src, hf)
    IN  /\ Begin(p, [kind |-> "GatherFileStats", id |-> "B1", hf |-> hf])
        /\ log' = [log EXCEPT ![p] = <<>>]
        /\ loc' = [loc EXCEPT ![p] = [NoLoc EXCEPT !.meta.files = g.files]]
        /\ Finish(p, IF g.err = "" THEN "ok" ELSE g.err)
        /\ UNCHANGED <<store, fs, now, counter>>

----------------------------------------------------------------------------
(* Upload followed by Download, by one process. *)

Doc(version, thanosVersion, labels) ==
    [version |-> version, thanosVersion |-> thanosVersion, labels |-> labels,
     files |-> [present |-> FALSE, list |-> <<>>], uploadTime |-> 0]

TenantA == Labels({<<"tenant", "a">>})

\* Descriptors Read accepts: the Thanos version absent or 1, the labels absent, empty or set.
ValidDocs ==
    {Doc(TSDBVersion1, tv, l) : tv \in {{}, {ThanosVersion1}},
                                l \in {NilLabels, Labels({}), TenantA}}

MaybeData == {Absent} \cup {Data(c) : c \in Contents}

BlockDir(chunk1, chunk2, index, meta) ==
    [stat |-> "dir", name |-> "B1", chunksDir |-> TRUE, tmp |-> Absent,
     files |-> [k \in Keys |->
                   CASE k = "chunks/000001" -> chunk1
                     [] k = "chunks/000002" -> chunk2
                     [] k = IndexFilename -> index
                     [] k = MetaFilename -> meta
                     [] OTHER -> Absent]]

\* Block directories with a flat chunks directory, an index and a valid meta.json.
ValidDirs ==
    {BlockDir(c1, c2, Data("a"), MetaObj(d)) :
        c1 \in MaybeData, c2 \in {Absent, Data("bb")}, d \in ValidDocs}

GoodDir == BlockDir(Data("a"), Data("bb"), Data("a"), MetaObj(Doc(TSDBVersion1, {}, TenantA)))

\* Directories upload must refuse, each wrong in one way.
InvalidDirs ==
    {[GoodDir EXCEPT !.stat = "missing"],
     [GoodDir EXCEPT !.stat = "file"],
     [GoodDir EXCEPT !.name = NotABlockID],
     [GoodDir EXCEPT !.chunksDir = FALSE,
                     !.files["chunks/000001"] = Absent, !.files["chunks/000002"] = Absent],
     [GoodDir EXCEPT !.files[IndexFilename] = Absent]}
    \cup {[GoodDir EXCEPT !.files[MetaFilename] = m] :
            m \in {Absent, Corrupt,
                   MetaObj(Doc(2, {ThanosVersion1}, TenantA)),
                   MetaObj(Doc(TSDBVersion1, {2}, TenantA))}}

\* Download directories: fresh, or holding files of an earlier download.
DstDirs ==
    {[EmptyDir EXCEPT !.chunksDir = (c1 # Absent \/ c2 # Absent),
                      !.files["chunks/000001"] = c1, !.files["chunks/000002"] = c2,
                      !.files[IndexFilename] = i, !.files[MetaFilename] = m] :
        c1 \in {Absent, Data("a")}, c2 \in {Absent, Data("bb")}, i \in MaybeData,
        m \in {Absent, Corrupt}}

InitCommon ==
    /\ now = 1
    /\ counter = [k \in MarkKeys \cup {"removeMark"} |-> 0]
    /\ pc = [p \in Procs |-> "idle"]
    /\ op = [p \in Procs |-> NoOp]
    /\ loc = [p \in Procs |-> NoLoc]
    /\ result = [p \in Procs |-> "none"]
    /\ log = [p \in Procs |-> <<>>]
    /\ prev = [p \in Procs |-> [op |-> NoOp, result |-> "none", store |-> EmptyStore,
                                counter |-> counter]]

Init ==
    /\ InitCommon
    /\ store = EmptyStore
    /\ budget = [p \in Procs |-> IF p = "p1" THEN 2 ELSE 0]
    /\ \E src \in ValidDirs \cup InvalidDirs, dst \in DstDirs :
        /\ src \in InvalidDirs => dst = EmptyDir
        /\ fs = [p \in Procs |-> IF p = "p1" THEN [src |-> src, dst |-> dst]
                                 ELSE [src |-> NoDir, dst |-> EmptyDir]]

Next ==
    \E p \in Procs :
        \/ op[p].kind = "none" /\ StartUpload(p)
        \/ UploadChunk(p)
        \/ UploadIndex(p)
        \/ UploadMeta(p)
        \/ op[p].kind = "Upload" /\ StartDownload(p, "B1")
        \/ DownloadMetaFile(p)
        \/ DownloadDirIter(p)
        \/ DownloadEntry(p)
        \/ DownloadFinish(p)

Spec == Init /\ [][Next]_vars

----------------------------------------------------------------------------
(* One Delete of a block in any state of upload, marking or deletion. *)

NoLocalDirs == [p \in Procs |-> [src |-> NoDir, dst |-> EmptyDir]]

StoredMeta == Write([ZeroMeta EXCEPT !.version = TSDBVersion1, !.labels = TenantA,
                                     !.uploadTime = 1])

StoredMark(m) ==
    MarkObj("B1", DeletionMarkVersion1, 1, IF m = DeletionMarkFilename THEN "" ELSE "manual", "d1")

\* The object a name holds when it is there.
Stored(k) ==
    IF k = MetaFilename THEN StoredMeta
    ELSE IF k \in MarkKeys THEN StoredMark(k)
    ELSE Data("a")

InitDelete ==
    /\ InitCommon
    /\ \E present \in SUBSET Keys :
        store = [b \in Blocks |->
                    [k \in Keys |-> IF b = "B1" /\ k \in present THEN Stored(k) ELSE Absent]]
    /\ fs = NoLocalDirs
    /\ budget = [p \in Procs |-> IF p = "p1" THEN 1 ELSE 0]

NextDelete ==
    \E p \in Procs :
        \/ StartDelete(p, "B1")
        \/ DeleteExistsMeta(p)
        \/ DeleteMeta(p)
        \/ DeleteIter(p)
        \/ DeleteEntry(p)
        \/ DeleteExistsMark(p)
        \/ DeleteMark(p)

SpecDelete == InitDelete /\ [][NextDelete]_vars

\* The same on a store whose listings may be stale.
NextDeleteStale ==
    \E p \in Procs :
        \/ StartDelete(p, "B1")
        \/ DeleteExistsMeta(p)
        \/ DeleteMeta(p)
        \/ DeleteIter(p)
        \/ DeleteIterStale(p)
        \/ DeleteEntry(p)
        \/ DeleteExistsMark(p)
        \/ DeleteMark(p)

SpecDeleteStale == InitDelete /\ [][NextDeleteStale]_vars

----------------------------------------------------------------------------
(* Mark operations: one caller invoking them one after another, and two callers
   setting marks at the same time. *)

ReasonOf(m) == IF m = DeletionMarkFilename THEN "" ELSE "manual"

InitMarks ==
    /\ InitCommon
    /\ store = EmptyStore
    /\ fs = NoLocalDirs
    /\ budget = [p \in Procs |-> IF p = "p1" THEN MaxOps ELSE 0]

NextMarks ==
    \E p \in Procs :
        \/ \E m \in MarkKeys, d \in DetailsSet : StartSetMark(p, "B1", m, ReasonOf(m), d)
        \/ SetMarkExists(p)
        \/ SetMarkUpload(p)
        \/ \E m \in MarkKeys : StartRemoveMark(p, "B1", m)
        \/ RemoveMarkExists(p)
        \/ RemoveMarkDelete(p)

SpecMarks == InitMarks /\ [][NextMarks]_vars

InitMarkRace ==
    /\ InitCommon
    /\ store = EmptyStore
    /\ fs = NoLocalDirs
    /\ budget = [p \in Procs |-> 1]

NextMarkRace ==
    \E p \in Procs :
        \/ \E m \in MarkKeys, d \in DetailsSet : StartSetMark(p, "B1", m, ReasonOf(m), d)
        \/ SetMarkExists(p)
        \/ SetMarkUpload(p)

SpecMarkRace == InitMarkRace /\ [][NextMarkRace]_vars

----------------------------------------------------------------------------
(* The local descriptor file written and read, by one process. *)

\* JSON documents of every version, supported or not.
AnyDocs ==
    {Doc(v, tv, l) : v \in {0, TSDBVersion1, 2}, tv \in {{}, {0}, {ThanosVersion1}, {2}},
                     l \in {NilLabels, Labels({}), TenantA}}

\* Descriptors a caller hands to WriteToDir.
NewMetas ==
    {[ZeroMeta EXCEPT !.version = v, !.thanosVersion = tv, !.labels = l, !.uploadTime = t] :
        v \in {TSDBVersion1}, tv \in {0, ThanosVersion1}, l \in {Labels({}), TenantA},
        t \in {1}}

InitLocalMeta ==
    /\ InitCommon
    /\ store = EmptyStore
    /\ budget = [p \in Procs |-> IF p = "p1" THEN 2 ELSE 0]
    /\ \E m \in {Absent, Corrupt} \cup {MetaObj(d) : d \in AnyDocs} :
        fs = [p \in Procs |->
                 IF p = "p1"
                 THEN [src |-> [GoodDir EXCEPT !.files[MetaFilename] = m], dst |-> EmptyDir]
                 ELSE [src |-> NoDir, dst |-> EmptyDir]]

NextLocalMeta ==
    \E p \in Procs :
        \/ \E m \in NewMetas : StartWriteToDir(p, m)
        \/ WriteTmp(p)
        \/ SyncTmp(p)
        \/ CloseTmp(p)
        \/ RenameRemoveAll(p)
        \/ RenameRename(p)
        \/ RenameSyncDir(p)
        \/ CallReadFromDir(p)

SpecLocalMeta == InitLocalMeta /\ [][NextLocalMeta]_vars

----------------------------------------------------------------------------
(* One operation that reads a descriptor of any version: Upload reads the local one,
   Download and DownloadMeta the stored one. *)

InitVersions ==
    /\ InitCommon
    /\ budget = [p \in Procs |-> IF p = "p1" THEN 1 ELSE 0]
    /\ \E m \in {Absent, Corrupt} \cup {MetaObj(d) : d \in AnyDocs} :
        /\ store = [EmptyStore EXCEPT !["B1"][MetaFilename] = m,
                                      !["B1"][IndexFilename] = Data("a"),
                                      !["B1"]["chunks/000001"] = Data("bb")]
        /\ fs = [p \in Procs |->
                    IF p = "p1"
                    THEN [src |-> [GoodDir EXCEPT !.files[MetaFilename] = m], dst |-> EmptyDir]
                    ELSE [src |-> NoDir, dst |-> EmptyDir]]

NextVersions ==
    \E p \in Procs :
        \/ StartUpload(p)
        \/ UploadChunk(p)
        \/ UploadIndex(p)
        \/ UploadMeta(p)
        \/ StartDownload(p, "B1")
        \/ DownloadMetaFile(p)
        \/ DownloadDirIter(p)
        \/ DownloadEntry(p)
        \/ DownloadFinish(p)
        \/ StartDownloadMeta(p, "B1")
        \/ DownloadMetaGet(p)

SpecVersions == InitVersions /\ [][NextVersions]_vars

----------------------------------------------------------------------------
(* Upload, or Delete, invoked again after each failure until it succeeds. *)

\* Valid block directories with labels: every validation step of upload passes.
RetryDirs ==
    {BlockDir(c1, c2, Data("a"), MetaObj(Doc(TSDBVersion1, {}, TenantA))) :
        c1 \in {Absent, Data("a")}, c2 \in {Absent, Data("bb")}}

\* Either a local block and an empty prefix to upload it to, or a stored block to delete:
\* any content, but a descriptor only over complete content; no mark, the deletion mark,
\* or all three.
InitRetry ==
    /\ InitCommon
    /\ budget = [p \in Procs |-> IF p = "p1" THEN MaxOps ELSE 0]
    /\ \/ /\ store = EmptyStore
          /\ \E src \in RetryDirs :
                fs = [p \in Procs |-> IF p = "p1" THEN [src |-> src, dst |-> EmptyDir]
                                      ELSE [src |-> NoDir, dst |-> EmptyDir]]
       \/ /\ fs = NoLocalDirs
          /\ \E present \in SUBSET Keys :
                /\ MetaFilename \in present => ChunkKeys \cup {IndexFilename} \subseteq present
                /\ present \cap MarkKeys \in {{}, {DeletionMarkFilename}, MarkKeys}
                /\ store = [b \in Blocks |->
                               [k \in Keys |->
                                   IF b = "B1" /\ k \in present THEN Stored(k) ELSE Absent]]

\* The caller invokes the operation for the first time, or again after it failed.
MayInvoke(p, kind) ==
    op[p].kind = "none" \/ (op[p].kind = kind /\ result[p] \notin {"none", "running", "ok"})

\* In the caller's last attempt every store call succeeds.
LastAttemptSucceeds(p) ==
    budget'[p] = 0 => \A i \in 1..Len(log'[p]) : log'[p][i].ok

\* The steps of a running Upload or Delete of p.
RetryStep(p) ==
    \/ UploadChunk(p) /\ LastAttemptSucceeds(p)
    \/ UploadIndex(p) /\ LastAttemptSucceeds(p)
    \/ UploadMeta(p) /\ LastAttemptSucceeds(p)
    \/ DeleteExistsMeta(p) /\ LastAttemptSucceeds(p)
    \/ DeleteMeta(p) /\ LastAttemptSucceeds(p)
    \/ DeleteIter(p) /\ LastAttemptSucceeds(p)
    \/ DeleteEntry(p) /\ LastAttemptSucceeds(p)
    \/ DeleteExistsMark(p) /\ LastAttemptSucceeds(p)
    \/ DeleteMark(p) /\ LastAttemptSucceeds(p)

NextRetry ==
    \E p \in Procs :
        \/ MayInvoke(p, "Upload") /\ fs[p].src.stat = "dir" /\ StartUpload(p)
        \/ MayInvoke(p, "Delete") /\ fs[p].src.stat # "dir" /\ StartDelete(p, "B1")
        \/ RetryStep(p)

\* An operation that was invoked runs until it returns.
SpecRetry ==
    /\ InitRetry /\ [][NextRetry]_vars
    /\ WF_vars(\E p \in Procs : RetryStep(p))

----------------------------------------------------------------------------
(* Mark operations of one caller on an uploaded block. *)

\* The block B1 as a successful Upload leaves it.
UploadedBlock ==
    [k \in Keys |-> IF k \in MarkKeys THEN Absent ELSE Stored(k)]

InitSlots ==
    /\ InitCommon
    /\ store = [EmptyStore EXCEPT !["B1"] = UploadedBlock]
    /\ fs = NoLocalDirs
    /\ budget = [p \in Procs |-> IF p = "p1" THEN MaxOps ELSE 0]

SpecSlots == InitSlots /\ [][NextMarks]_vars

----------------------------------------------------------------------------
(* Two callers at once, each with one operation on a block of its own. *)

BlockOf(p) == IF p = "p1" THEN "B1" ELSE "B2"

\* Block b in the store: descriptor, index, one chunk file and the deletion mark.
StoredBlock(b) ==
    [k \in Keys |->
        CASE k \in {MetaFilename, IndexFilename, "chunks/000001"} -> Stored(k)
          [] k = DeletionMarkFilename -> MarkObj(b, DeletionMarkVersion1, 1, "", "d1")
          [] OTHER -> Absent]

\* The local directory of block b: one chunk file, the index, a descriptor with labels.
LocalBlock(b) ==
    [BlockDir(Data("bb"), Absent, Data("a"), MetaObj(Doc(TSDBVersion1, {}, TenantA)))
        EXCEPT !.name = b]

InitIsolation ==
    /\ InitCommon
    /\ store = [b \in Blocks |-> StoredBlock(b)]
    /\ fs = [p \in Procs |-> [src |-> LocalBlock(BlockOf(p)), dst |-> EmptyDir]]
    /\ budget = [p \in Procs |-> 1]

NextIsolation ==
    \E p \in Procs :
        \/ StartUpload(p)
        \/ UploadChunk(p)
        \/ UploadIndex(p)
        \/ UploadMeta(p)
        \/ StartDownload(p, BlockOf(p))
        \/ DownloadMetaFile(p)
        \/ DownloadDirIter(p)
        \/ DownloadEntry(p)
        \/ DownloadFinish(p)
        \/ StartDownloadMeta(p, BlockOf(p))
        \/ DownloadMetaGet(p)
        \/ StartDelete(p, BlockOf(p))
        \/ DeleteExistsMeta(p)
        \/ DeleteMeta(p)
        \/ DeleteIter(p)
        \/ DeleteEntry(p)
        \/ DeleteExistsMark(p)
        \/ DeleteMark(p)
        \/ \E m \in MarkKeys : StartSetMark(p, BlockOf(p), m, ReasonOf(m), "d1")
        \/ SetMarkExists(p)
        \/ SetMarkUpload(p)
        \/ \E m \in MarkKeys : StartRemoveMark(p, BlockOf(p), m)
        \/ RemoveMarkExists(p)
        \/ RemoveMarkDelete(p)

SpecIsolation == InitIsolation /\ [][NextIsolation]_vars

----------------------------------------------------------------------------
(* Two callers at once on the same block: Delete against Delete or RemoveMark, over a
   store that is never at fault but answers a delete of a missing object either way. *)

\* The only call that fails is a bkt.Delete of an object that is not there: whether that
\* is an error is the bucket implementation's choice, and both answers are taken.
OnlyNotFound(p) ==
    log'[p] # log[p] =>
        LET c == log'[p][Len(log'[p])]
        IN  c.ok \/ (c.call = "delete" /\ ~Exists(store, c.id, c.key))

InitDeleteRace ==
    /\ InitCommon
    /\ store = [EmptyStore EXCEPT !["B1"] = StoredBlock("B1")]
    /\ fs = NoLocalDirs
    /\ budget = [p \in Procs |-> 1]

NextDeleteRace ==
    \E p \in Procs :
        \/ StartDelete(p, "B1")
        \/ DeleteExistsMeta(p) /\ OnlyNotFound(p)
        \/ DeleteMeta(p) /\ OnlyNotFound(p)
        \/ DeleteIter(p) /\ OnlyNotFound(p)
        \/ DeleteEntry(p) /\ OnlyNotFound(p)
        \/ DeleteExistsMark(p) /\ OnlyNotFound(p)
        \/ DeleteMark(p) /\ OnlyNotFound(p)
        \/ StartRemoveMark(p, "B1", DeletionMarkFilename)
        \/ RemoveMarkExists(p) /\ OnlyNotFound(p)
        \/ RemoveMarkDelete(p) /\ OnlyNotFound(p)

SpecDeleteRace == InitDeleteRace /\ [][NextDeleteRace]_vars

----------------------------------------------------------------------------
(* One Download into a directory an earlier download has left, its meta.json stale. *)

\* The descriptor of block b with the manifest of its local directory under hash function hf.
UploadedMeta(b, hf) ==
    Write([Read(LocalBlock(b).files[MetaFilename]).meta
              EXCEPT !.files = GatherFileStats(LocalBlock(b), hf).files, !.uploadTime = 1])

\* A descriptor whose manifest records, with hashes, the files index and chunk as given.
StaleMeta(index, chunk) ==
    Write([Read(LocalBlock("B1").files[MetaFilename]).meta
              EXCEPT !.files = GatherFileStats(
                                   [LocalBlock("B1") EXCEPT !.files[IndexFilename] = index,
                                                            !.files["chunks/000001"] = chunk],
                                   SHA256Func).files,
                     !.uploadTime = 1])

InitStale ==
    /\ InitCommon
    /\ budget = [p \in Procs |-> IF p = "p1" THEN 1 ELSE 0]
    /\ \E m \in {Absent, Corrupt, MetaObj(Doc(2, {ThanosVersion1}, TenantA)),
                 UploadedMeta("B1", NoneFunc), UploadedMeta("B1", SHA256Func)} :
        store = [EmptyStore EXCEPT !["B1"][MetaFilename] = m,
                                   !["B1"][IndexFilename] = Data("a"),
                                   !["B1"]["chunks/000001"] = Data("bb")]
    /\ \E i \in {Data(c) : c \in Contents}, c1 \in MaybeData, stale \in BOOLEAN :
        fs = [p \in Procs |->
                 IF p = "p1"
                 THEN [src |-> NoDir,
                       dst |-> [EmptyDir EXCEPT
                                   !.chunksDir = (c1 # Absent),
                                   !.files[IndexFilename] = i,
                                   !.files["chunks/000001"] = c1,
                                   !.files[MetaFilename] =
                                       IF stale THEN StaleMeta(i, c1) ELSE Absent]]
                 ELSE [src |-> NoDir, dst |-> EmptyDir]]

NextStale ==
    \E p \in Procs :
        \/ StartDownload(p, "B1")
        \/ DownloadMetaFile(p)
        \/ DownloadDirIter(p)
        \/ DownloadEntry(p)
        \/ DownloadFinish(p)

SpecStale == InitStale /\ [][NextStale]_vars

----------------------------------------------------------------------------
(* The file stat collector on any block directory, and an Upload beside it. *)

\* Block directories whose chunks directory may hold a directory, or that lack a part.
StatDirs ==
    {d \in {[BlockDir(c1, c2, i, m) EXCEPT !.chunksDir = cd] :
               c1 \in {Absent, Data("a"), Subdir}, c2 \in {Absent, Data("bb"), Subdir},
               i \in {Absent, Data("a")},
               m \in {Absent, MetaObj(Doc(TSDBVersion1, {}, TenantA))},
               cd \in BOOLEAN} :
        d.chunksDir \/ \A c \in ChunkKeys : d.files[c] = Absent}

InitStats ==
    /\ InitCommon
    /\ store = EmptyStore
    /\ budget = [p \in Procs |-> 1]
    /\ \E d \in StatDirs, c2 \in {Absent, Data("bb")} :
        fs = [p \in Procs |->
                 IF p = "p1" THEN [src |-> d, dst |-> EmptyDir]
                 ELSE [src |-> [GoodDir EXCEPT !.files["chunks/000002"] = c2],
                       dst |-> EmptyDir]]

NextStats ==
    \/ \E hf \in {NoneFunc, SHA256Func} : CallGatherFileStats("p1", hf)
    \/ StartUpload("p2")
    \/ UploadChunk("p2")
    \/ UploadIndex("p2")
    \/ UploadMeta("p2")

SpecStats == InitStats /\ [][NextStats]_vars

----------------------------------------------------------------------------
(* An Upload and a Delete of the same block at once. *)

InitUploadDelete ==
    /\ InitCommon
    /\ budget = [p \in Procs |-> 1]
    /\ fs = [p \in Procs |-> [src |-> IF p = "p1" THEN LocalBlock("B1") ELSE NoDir,
                              dst |-> EmptyDir]]
    /\ \E there \in BOOLEAN, marked \in BOOLEAN :
        store = [EmptyStore EXCEPT
                    !["B1"] = [k \in Keys |->
                        CASE k \in LocalChunks(LocalBlock("B1")) \cup {IndexFilename} ->
                                 IF there THEN LocalBlock("B1").files[k] ELSE Absent
                          [] k = MetaFilename ->
                                 IF there THEN UploadedMeta("B1", NoneFunc) ELSE Absent
                          [] k = DeletionMarkFilename ->
                                 IF marked THEN StoredMark(k) ELSE Absent
                          [] OTHER -> Absent]]

NextUploadDelete ==
    \/ StartUpload("p1")
    \/ UploadChunk("p1")
    \/ UploadIndex("p1")
    \/ UploadMeta("p1")
    \/ StartDelete("p2", "B1")
    \/ DeleteExistsMeta("p2")
    \/ DeleteMeta("p2")
    \/ DeleteIter("p2")
    \/ DeleteEntry("p2")
    \/ DeleteExistsMark("p2")
    \/ DeleteMark("p2")

SpecUploadDelete == InitUploadDelete /\ [][NextUploadDelete]_vars

----------------------------------------------------------------------------
(* Two Uploads of the same block at once, from two directories with the block's name. *)

InitUploadRace ==
    /\ InitCommon
    /\ store = EmptyStore
    /\ budget = [p \in Procs |-> 1]
    /\ \E c2 \in {Absent, Data("bb")} :
        fs = [p \in Procs |->
                 [src |-> IF p = "p1" THEN LocalBlock("B1")
                          ELSE [LocalBlock("B1") EXCEPT !.files["chunks/000002"] = c2],
                  dst |-> EmptyDir]]

NextUploadRace ==
    \E p \in Procs :
        \/ StartUpload(p)
        \/ UploadChunk(p)
        \/ UploadIndex(p)
        \/ UploadMeta(p)

SpecUploadRace == InitUploadRace /\ [][NextUploadRace]_vars

----------------------------------------------------------------------------
(* Properties of Upload and Download (specification Spec). *)

IsError(r) == r \notin {"none", "running", "ok"}

Uploads(l) == {i \in 1..Len(l) : l[i].call = "upload"}
Gets(l, k) == {i \in 1..Len(l) : l[i].call = "get" /\ l[i].key = k}

\* C1: while and after a single Upload into an empty prefix runs, fails or stops at any
\* step, meta.json in the store implies the index and every local chunk file in the store;
\* an Upload that returned an error has left no meta.json.
C1_MetaUploadedLast ==
    \A p \in Procs :
        LET dir == fs[p].src
        IN  dir.name \in Blocks =>
              /\ Exists(store, dir.name, MetaFilename) =>
                    /\ Exists(store, dir.name, IndexFilename)
                    /\ \A c \in ChunkKeys :
                          dir.files[c] # Absent => store[dir.name][c] = dir.files[c]
              /\ (op[p].kind = "Upload" /\ IsError(result[p])) =>
                    ~Exists(store, dir.name, MetaFilename)

\* An Upload failed at the descriptor, after the index and two chunks went up.
C1_Witness ==
    \E p \in Procs :
        /\ op[p].kind = "Upload" /\ result[p] = "upload meta file"
        /\ Exists(store, op[p].id, IndexFilename)
        /\ \A c \in ChunkKeys : Exists(store, op[p].id, c)
        /\ ~Exists(store, op[p].id, MetaFilename)

\* What Read accepts, stated on the JSON document.
Decodable(obj) ==
    /\ obj.kind = "meta"
    /\ obj.doc.version = 1
    /\ obj.doc.thanosVersion \subseteq {1}

\* A directory one of upload's validation steps refuses.
FailsValidation(dir, checkExternalLabels) ==
    \/ dir.stat # "dir"
    \/ dir.name \notin Blocks
    \/ ~Decodable(dir.files[MetaFilename])
    \/ checkExternalLabels /\ dir.files[MetaFilename].doc.labels.kv = {}
    \/ ~dir.chunksDir
    \/ dir.files[IndexFilename] = Absent

\* C7: an Upload that fails a validation step returns an error without a single store
\* call, the store unchanged; without the label requirement empty labels do not fail it.
C7_ValidationBeforeStore ==
    \A p \in Procs :
        op[p].kind = "Upload" =>
            IF FailsValidation(fs[p].src, op[p].checkExternalLabels)
            THEN IsError(result[p]) /\ log[p] = <<>> /\ store = EmptyStore
            ELSE result[p] \in {"running", "ok", "upload chunks", "upload index",
                                "upload meta file"}

\* A labelled-upload of a block without labels was refused.
C7_Witness ==
    \E p \in Procs :
        /\ op[p].kind = "Upload" /\ op[p].checkExternalLabels
        /\ Decodable(fs[p].src.files[MetaFilename])
        /\ fs[p].src.files[MetaFilename].doc.labels.kv = {}
        /\ result[p] = "empty external labels are not allowed for Thanos block."
        /\ log[p] = <<>>

\* C8: the store writes of a successful Upload are, in order: one upload per local chunk
\* file, then the index, then meta.json once, and nothing after it.
C8_UploadOrder ==
    \A p \in Procs :
        (op[p].kind = "Upload" /\ result[p] = "ok") =>
            LET l == log[p]
                n == Len(l)
                chunks == LocalChunks(fs[p].src)
            IN  /\ n = Cardinality(chunks) + 2
                /\ \A i \in 1..n : l[i].call = "upload" /\ l[i].ok /\ l[i].id = op[p].id
                /\ {l[i].key : i \in 1..(n - 2)} = chunks
                /\ l[n - 1].key = IndexFilename
                /\ l[n].key = MetaFilename

\* A successful Upload of a block with two chunk files.
C8_Witness ==
    \E p \in Procs :
        /\ op[p].kind = "Upload" /\ result[p] = "ok"
        /\ LocalChunks(fs[p].src) = ChunkKeys
        /\ Len(log[p]) = 4

\* A descriptor without the fields the Uploader rewrites.
SansRewritten(m) == [m EXCEPT !.files = <<>>, !.uploadTime = 0]

\* C9: a successful Upload followed by a successful Download into a fresh directory gives
\* the index and chunk files of the source, path by path and byte by byte, nothing else
\* but meta.json, and a descriptor equal to the source's but for files and upload_time.
C9_RoundTrip ==
    \A p \in Procs :
        ( /\ op[p].kind = "Download" /\ result[p] = "ok"
          /\ prev[p].op.kind = "Upload" /\ prev[p].result = "ok"
          /\ op[p].dst0 = EmptyDir ) =>
            LET src == fs[p].src
                dst == fs[p].dst
                a == Read(src.files[MetaFilename])
                b == Read(dst.files[MetaFilename])
            IN  /\ \A k \in ChunkKeys \cup {IndexFilename} : dst.files[k] = src.files[k]
                /\ \A k \in MarkKeys : dst.files[k] = Absent
                /\ dst.chunksDir = src.chunksDir
                /\ a.err = "" /\ b.err = ""
                /\ SansRewritten(b.meta) = SansRewritten(a.meta)
                /\ Len(b.meta.files) = Cardinality(LocalChunks(src)) + 2
                /\ b.meta.uploadTime >= 1

\* A block with a chunk file and labels went up and came back into a fresh directory.
C9_Witness ==
    \E p \in Procs :
        /\ op[p].kind = "Download" /\ result[p] = "ok"
        /\ prev[p].op.kind = "Upload" /\ prev[p].result = "ok"
        /\ op[p].dst0 = EmptyDir
        /\ fs[p].dst.files["chunks/000001"] = Data("bb")
        /\ fs[p].src.files[MetaFilename].doc.labels = TenantA

\* The manifest of the descriptor in the store.
StoredManifest(id) ==
    IF store[id][MetaFilename].kind = "meta" /\ store[id][MetaFilename].doc.files.present
    THEN store[id][MetaFilename].doc.files.list
    ELSE <<>>

\* The manifest names k with a hash that the file at k in dir has.
HashMatches(files, dir, k) ==
    \E i \in 1..Len(files) :
        /\ files[i].relPath = k
        /\ ~files[i].hash.isNil /\ files[i].hash.func # NoneFunc
        /\ dir.files[k].kind = "data"
        /\ files[i].hash.value = Sha256Of(dir.files[k].bytes)

\* C10: a Download gets meta.json from the store exactly once, as its first call, whatever
\* the directory held; it never gets an object whose local file has the hash the manifest
\* records; and a successful Download gets every other object of the block exactly once.
C10_DownloadFetches ==
    \A p \in Procs :
        op[p].kind = "Download" =>
            LET id == op[p].id
                l == log[p]
                files == StoredManifest(id)
            IN  /\ Gets(l, MetaFilename) \subseteq {1}
                /\ (pc[p] # "downloadMeta" /\ result[p] # "create dir") =>
                        Gets(l, MetaFilename) = {1}
                /\ \A k \in Keys \ {MetaFilename} :
                        HashMatches(files, op[p].dst0, k) => Gets(l, k) = {}
                /\ result[p] = "ok" =>
                        \A k \in Keys \ {MetaFilename} :
                            (Exists(store, id, k) /\ ~HashMatches(files, op[p].dst0, k)) =>
                                /\ Cardinality(Gets(l, k)) = 1
                                /\ fs[p].dst.files[k] = store[id][k]

\* A Download over an earlier one: meta.json was there, one chunk file matched and was
\* kept, the index did not match and was fetched.
C10_Witness ==
    \E p \in Procs :
        /\ op[p].kind = "Download" /\ result[p] = "ok"
        /\ op[p].dst0.files[MetaFilename] # Absent
        /\ HashMatches(StoredManifest(op[p].id), op[p].dst0, "chunks/000001")
        /\ Gets(log[p], "chunks/000001") = {}
        /\ op[p].dst0.files[IndexFilename] = Data("bb")
        /\ Cardinality(Gets(log[p], IndexFilename)) = 1

----------------------------------------------------------------------------
(* Properties of Delete (specification SpecDelete). *)

ContentKeys == ChunkKeys \cup {IndexFilename}

\* The object at k was in the store when the operation of p was called and is gone.
Deleted(p, k) == prev[p].store[op[p].id][k] # Absent /\ store[op[p].id][k] = Absent

\* C2: while and after a single Delete runs, fails or stops at any step, a content object
\* (index, chunk) it has deleted implies meta.json gone; a Delete that failed listing the
\* prefix right after the descriptor has left no meta.json and every content object.
C2_MetaDeletedFirst ==
    \A p \in Procs :
        op[p].kind = "Delete" =>
            /\ (\E k \in ContentKeys : Deleted(p, k)) =>
                    ~Exists(store, op[p].id, MetaFilename)
            /\ (result[p] = "iter" /\ log[p][Len(log[p])].key = "") =>
                    /\ ~Exists(store, op[p].id, MetaFilename)
                    /\ \A k \in ContentKeys : ~Deleted(p, k)

\* A Delete removed the descriptor and failed before any content: the content is all there.
C2_Witness ==
    \E p \in Procs :
        /\ op[p].kind = "Delete" /\ result[p] = "iter" /\ Len(log[p]) = 3
        /\ Deleted(p, MetaFilename)
        /\ \A k \in ContentKeys : Exists(store, op[p].id, k)

\* C3: in a Delete of a block whose deletion mark existed at the call, the mark is in the
\* store as long as any other object of the block is, and is gone only when the Delete
\* has returned success; a Delete that failed has left it.
C3_DeletionMarkLast ==
    \A p \in Procs :
        (op[p].kind = "Delete" /\ Exists(prev[p].store, op[p].id, DeletionMarkFilename)) =>
            \/ Exists(store, op[p].id, DeletionMarkFilename)
            \/ /\ result[p] = "ok"
               /\ \A k \in Keys : ~Exists(store, op[p].id, k)

\* A Delete failed in its recursive pass, a chunk already deleted, the mark still there.
C3_Witness ==
    \E p \in Procs :
        /\ op[p].kind = "Delete" /\ result[p] = "delete"
        /\ Deleted(p, "chunks/000001")
        /\ Exists(store, op[p].id, NoCompactMarkFilename)
        /\ Exists(store, op[p].id, DeletionMarkFilename)

----------------------------------------------------------------------------
(* Properties of the marks (specifications SpecMarks and SpecMarkRace). *)

\* C4: among setMark calls that may interleave, a mark that has been written is never
\* written over: it stays the object of the first upload.
C4_FirstMarkKept ==
    [][\A b \in Blocks, m \in MarkKeys :
          store[b][m] # Absent => store'[b][m] = store[b][m]]_vars

\* The state of the store and the counters the operation of p was called in.
Untouched(p) == store = prev[p].store /\ counter = prev[p].counter

\* C5: a setMark called while its mark exists returns success once the existence check has
\* answered, uploads nothing, and leaves the mark and the counters as they were; called
\* while the mark is absent, a success has created the mark with one upload and counted
\* it once, and a failure has changed nothing.
C5_SetMarkIdempotent ==
    \A p \in Procs :
        (op[p].kind = "SetMark" /\ pc[p] = "idle") =>
            LET id == op[p].id
                m == op[p].key
            IN  IF Exists(prev[p].store, id, m)
                THEN /\ log[p][1].ok => result[p] = "ok"
                     /\ Uploads(log[p]) = {}
                     /\ Untouched(p)
                ELSE IF result[p] = "ok"
                THEN /\ Cardinality(Uploads(log[p])) = 1
                     /\ store[id][m].kind = "mark"
                     /\ store[id][m].details = op[p].details
                     /\ store[id][m].time = now
                     /\ store = Put(prev[p].store, id, m, store[id][m])
                     /\ counter = [prev[p].counter EXCEPT ![m] = @ + 1]
                ELSE Untouched(p)

\* A second setMark, later and with other details, returned success over the first's mark.
C5_Witness ==
    \E p \in Procs :
        /\ op[p].kind = "SetMark" /\ pc[p] = "idle" /\ result[p] = "ok"
        /\ Exists(prev[p].store, op[p].id, op[p].key)
        /\ prev[p].op.kind = "SetMark"
        /\ store[op[p].id][op[p].key].details # op[p].details
        /\ counter[op[p].key] = 1

Deletes(l) == {i \in 1..Len(l) : l[i].call = "delete"}

\* The two operations are the same call.
SameCall(o1, o2) == o1.kind = o2.kind /\ o1.id = o2.id /\ o1.key = o2.key

\* C6: a RemoveMark called while the mark is absent returns success once the existence
\* check has answered, deletes nothing and counts nothing; called while it is present, a
\* success has deleted that object alone, with one delete call, and counted it once; a
\* second RemoveMark in a row leaves the store as the first left it.
C6_RemoveMarkIdempotent ==
    \A p \in Procs :
        (op[p].kind = "RemoveMark" /\ pc[p] = "idle") =>
            LET id == op[p].id
                m == op[p].key
            IN  /\ IF ~Exists(prev[p].store, id, m)
                   THEN /\ log[p][1].ok => result[p] = "ok"
                        /\ Deletes(log[p]) = {}
                        /\ Untouched(p)
                   ELSE IF result[p] = "ok"
                   THEN /\ Cardinality(Deletes(log[p])) = 1
                        /\ \A i \in Deletes(log[p]) : log[p][i].id = id /\ log[p][i].key = m
                        /\ store = Remove(prev[p].store, id, m)
                        /\ counter = [prev[p].counter EXCEPT !["removeMark"] = @ + 1]
                   ELSE Untouched(p)
                /\ ( /\ result[p] = "ok"
                     /\ prev[p].op.kind = "RemoveMark" /\ SameCall(prev[p].op, op[p])
                     /\ prev[p].result = "ok" ) =>
                        store = prev[p].store

\* A RemoveMark deleted a mark and a second one, right after it, returned success.
C6_Witness ==
    \E p \in Procs :
        /\ op[p].kind = "RemoveMark" /\ pc[p] = "idle" /\ result[p] = "ok"
        /\ prev[p].op.kind = "RemoveMark" /\ SameCall(prev[p].op, op[p])
        /\ prev[p].result = "ok"
        /\ counter["removeMark"] = 1

----------------------------------------------------------------------------
(* Properties of the local descriptor file (specification SpecLocalMeta). *)

\* C11: at every point of a WriteToDir, and so wherever the process may crash, the file
\* <dir>/meta.json holds the complete content it had at the call or the complete new
\* encoding, and is not missing when it existed at the call.
C11_WriteToDirCrashAtomic ==
    \A p \in Procs :
        op[p].kind = "WriteToDir" =>
            LET target == fs[p].src.files[MetaFilename]
            IN  /\ target \in {op[p].old, Write(op[p].meta)}
                /\ op[p].old # Absent => target # Absent

\* C12: ReadFromDir of a JSON descriptor fails when the top-level version is not 1, fails
\* when the Thanos section's version is neither absent, 0 nor 1, and succeeds otherwise;
\* the descriptor a success returns has a labels mapping that is not nil: the empty
\* mapping when the document had none, the document's mapping otherwise.
C12_ReadVersionGating ==
    \A p \in Procs :
        (op[p].kind = "ReadFromDir" /\ fs[p].src.files[MetaFilename].kind = "meta") =>
            LET doc == fs[p].src.files[MetaFilename].doc
                m == loc[p].meta
            IN  /\ doc.version # 1 => IsError(result[p])
                /\ ~(doc.thanosVersion \subseteq {0, 1}) => IsError(result[p])
                /\ (doc.version = 1 /\ doc.thanosVersion \subseteq {0, 1}) =>
                      /\ result[p] = "ok"
                      /\ m.version = 1
                      /\ ~m.labels.isNil
                      /\ m.labels.kv = doc.labels.kv

\* A descriptor with no Thanos version and no labels was read: success, the labels empty.
C12_Witness ==
    \E p \in Procs :
        /\ op[p].kind = "ReadFromDir" /\ result[p] = "ok"
        /\ fs[p].src.files[MetaFilename].kind = "meta"
        /\ fs[p].src.files[MetaFilename].doc.thanosVersion = {}
        /\ fs[p].src.files[MetaFilename].doc.labels.isNil
        /\ loc[p].meta.labels = Labels({})

----------------------------------------------------------------------------
(* Properties of the operations reading a descriptor (specification SpecVersions). *)

\* The descriptor the operation of p reads: the local one in Upload, the stored one else.
DescriptorRead(p) ==
    IF op[p].kind = "Upload" THEN fs[p].src.files[MetaFilename]
    ELSE store[op[p].id][MetaFilename]

\* A JSON descriptor of a version Read does not support.
UnsupportedVersion(obj) ==
    obj.kind = "meta" /\ (obj.doc.version # 1 \/ ~(obj.doc.thanosVersion \subseteq {0, 1}))

\* C13: an Upload, Download or DownloadMeta whose descriptor has an unsupported top-level
\* or Thanos-section version never returns success: once it has returned, it has returned
\* an error.
C13_UnsupportedVersionFatal ==
    \A p \in Procs :
        (op[p].kind \in {"Upload", "Download", "DownloadMeta"}
            /\ UnsupportedVersion(DescriptorRead(p))) =>
                /\ result[p] # "ok"
                /\ pc[p] = "idle" => IsError(result[p])

----------------------------------------------------------------------------
(* Properties of failed and repeated operations (specification SpecRetry). *)

\* The calls of kind c on key k that the store acknowledged.
Done(l, c, k) == {i \in 1..Len(l) : l[i].call = c /\ l[i].key = k /\ l[i].ok}

\* What key k of the block holds after the calls the operation of p has completed, given
\* what it held when the operation was called.
AfterCompleted(p, k) ==
    IF Done(log[p], "delete", k) # {} THEN Absent
    ELSE IF Done(log[p], "upload", k) # {}
    THEN (IF k = MetaFilename THEN Write(loc[p].meta)
          ELSE IF k \in MarkKeys THEN loc[p].payload
          ELSE fs[p].src.files[k])
    ELSE prev[p].store[op[p].id][k]

BlockChunks(p) == IF fs[p].src.stat = "dir" THEN LocalChunks(fs[p].src) ELSE ChunkKeys

\* meta.json in the store implies the index and all chunk files in the store.
MetaImpliesContent ==
    \A p \in Procs :
        (op[p].kind \in {"Upload", "Delete"} /\ Exists(store, op[p].id, MetaFilename)) =>
            /\ Exists(store, op[p].id, IndexFilename)
            /\ \A c \in BlockChunks(p) : Exists(store, op[p].id, c)

\* The store a run without a failure ends in: the content and a descriptor with its
\* manifest after Upload, nothing under the block's prefix after Delete.
FinalState(p) ==
    IF op[p].kind = "Delete" THEN \A k \in Keys : ~Exists(store, op[p].id, k)
    ELSE /\ \A k \in ChunkKeys \cup {IndexFilename} : store[op[p].id][k] = fs[p].src.files[k]
         /\ \A k \in MarkKeys : ~Exists(store, op[p].id, k)
         /\ LET r == Read(store[op[p].id][MetaFilename])
                g == GatherFileStats(fs[p].src, op[p].hf)
            IN  /\ r.err = "" /\ r.meta.files = g.files /\ r.meta.uploadTime >= 1
                /\ SansRewritten(r.meta) = SansRewritten(Read(fs[p].src.files[MetaFilename]).meta)

RetrySafe ==
    /\ MetaImpliesContent
    /\ \A p \in Procs :
          (op[p].kind \in {"Upload", "Delete"} /\ result[p] = "ok") => FinalState(p)

\* C15: Upload, and Delete, invoked again after each attempt that failed at whatever step:
\* meta.json in the store implies the index and all chunk files in the store, in every
\* state of the failed attempts and of the retry; an attempt that succeeds ends in the
\* store of a run that never failed; and the attempt whose store calls all succeed does
\* return success.
C15_RetryConverges ==
    /\ []RetrySafe
    /\ \A p \in Procs :
          (budget[p] = 0 /\ op[p].kind \in {"Upload", "Delete"})
              ~> (pc[p] = "idle" /\ result[p] = "ok" /\ FinalState(p))

\* A Delete succeeded at the third attempt, the attempt before it having failed after it
\* had deleted the descriptor.
C15_Witness ==
    \E p \in Procs :
        /\ op[p].kind = "Delete" /\ result[p] = "ok" /\ budget[p] = 0
        /\ IsError(prev[p].result)
        /\ ~Exists(prev[p].store, op[p].id, MetaFilename)
        /\ Exists(prev[p].store, op[p].id, IndexFilename)
        /\ Exists(prev[p].store, op[p].id, DeletionMarkFilename)
        /\ \A k \in Keys : ~Exists(store, op[p].id, k)

----------------------------------------------------------------------------
(* Properties of the marks of an uploaded block (specification SpecSlots). *)

\* C16: a setMark or RemoveMark of one kind calls the store on its own mark object only
\* and leaves every other object of the block as it was: the two other marks, meta.json,
\* the index and the chunks; so the marks present on a block can be any of the three.
C16_MarkSlotsIndependent ==
    \A p \in Procs :
        op[p].kind \in {"SetMark", "RemoveMark"} =>
            /\ \A i \in 1..Len(log[p]) : log[p][i].id = op[p].id /\ log[p][i].key = op[p].key
            /\ \A k \in Keys \ {op[p].key} : store[op[p].id][k] = prev[p].store[op[p].id][k]
            /\ \A b \in Blocks \ {op[p].id} : store[b] = prev[p].store[b]

\* The third mark was set on a block that had the two others: all three are present, the
\* two earlier ones and the block's content as they were.
C16_Witness ==
    \E p \in Procs :
        /\ op[p].kind = "SetMark" /\ result[p] = "ok"
        /\ \A m \in MarkKeys \ {op[p].key} : Exists(prev[p].store, op[p].id, m)
        /\ ~Exists(prev[p].store, op[p].id, op[p].key)
        /\ \A m \in MarkKeys : Exists(store, op[p].id, m)
        /\ \A k \in Keys \ MarkKeys : store[op[p].id][k] = Stored(k)

----------------------------------------------------------------------------
(* Properties of operations on different blocks (specification SpecIsolation). *)

\* C17: with an operation of any kind running on block A and one on block B, interleaved
\* at will, every store call of an operation names a key under its own block's prefix, and
\* the objects under a block's prefix are those its own operation's completed calls made
\* of the objects that were there: the other block's operation changes none of them, and
\* what a Download or DownloadMeta brings back is what its own block holds.
C17_BlockIsolation ==
    \A p \in Procs :
        IF op[p].kind = "none"
        THEN store[BlockOf(p)] = StoredBlock(BlockOf(p))
        ELSE /\ op[p].id = BlockOf(p)
             /\ \A i \in 1..Len(log[p]) : log[p][i].id = BlockOf(p)
             /\ prev[p].store[BlockOf(p)] = StoredBlock(BlockOf(p))
             /\ \A k \in Keys : store[BlockOf(p)][k] = AfterCompleted(p, k)
             /\ \A k \in Keys :
                   (op[p].kind = "Download" /\ fs[p].dst.files[k] # Absent) =>
                        fs[p].dst.files[k] = StoredBlock(BlockOf(p))[k]
             /\ (op[p].kind = "DownloadMeta" /\ result[p] = "ok") =>
                   loc[p].meta = JSONDecode(StoredBlock(BlockOf(p))[MetaFilename]).meta

\* A Delete of one block ran to the end while an Upload of the other block was under way
\* and then succeeded: the one block is gone, the other holds what was uploaded.
C17_Witness ==
    /\ op["p1"].kind = "Delete" /\ result["p1"] = "ok"
    /\ op["p2"].kind = "Upload" /\ result["p2"] = "ok"
    /\ prev["p1"].store = prev["p2"].store
    /\ \A k \in Keys : ~Exists(store, "B1", k)
    /\ store["B2"]["chunks/000001"] = Data("bb")
    /\ Exists(store, "B2", DeletionMarkFilename)

----------------------------------------------------------------------------
(* Properties of concurrent deletes (specification SpecDeleteRace). *)

\* C18: a Delete running at the same time as another Delete or a RemoveMark on the same
\* block, over a store in which nothing fails but a delete of a missing object, never
\* returns an error: an object gone between the existence check or the listing and the
\* delete call does not make it fail.
C18_DeleteToleratesMissing ==
    \A p \in Procs : op[p].kind = "Delete" => ~IsError(result[p])

----------------------------------------------------------------------------
(* Further properties of Upload and Download (specification Spec). *)

\* C19: after a successful Upload the local file <localDir>/meta.json is the descriptor
\* that was uploaded: it carries the files manifest and the upload time.
C19_LocalDescriptorRewritten ==
    \A p \in Procs :
        (op[p].kind = "Upload" /\ result[p] = "ok") =>
            LET local == Read(fs[p].src.files[MetaFilename])
                stored == Read(store[op[p].id][MetaFilename])
            IN  /\ local.err = "" /\ stored.err = ""
                /\ local.meta.files = stored.meta.files
                /\ local.meta.uploadTime = stored.meta.uploadTime
                /\ local.meta = stored.meta

\* The manifest names k with a hash Download compares.
Hashed(files, k) ==
    \E i \in 1..Len(files) :
        files[i].relPath = k /\ ~files[i].hash.isNil /\ files[i].hash.func # NoneFunc

\* C20: in a Download, a local file that is missing, unreadable or of another content than
\* a hashed manifest entry records is no error: Download fails only where a store call or
\* the creation of a directory (os.MkdirAll, os.Stat, os.Mkdir) fails; the ignore-set holds meta.json and exactly the hashed entries whose
\* local file matches; and a successful Download has fetched each entry that did not
\* match, once, and none that matched.
C20_HashMismatchRefetches ==
    \A p \in Procs :
        op[p].kind = "Download" =>
            LET id == op[p].id
                l == log[p]
                files == StoredManifest(id)
            IN  /\ IsError(result[p]) =>
                      (result[p] \in {"create dir", "chunks dir"} \/ (l # <<>> /\ ~l[Len(l)].ok))
                /\ pc[p] \in {"downloadDir", "downloadEntries"} =>
                      loc[p].ignored =
                          {MetaFilename} \cup
                              {k \in Keys : HashMatches(files, op[p].dst0, k)}
                /\ result[p] = "ok" =>
                      \A k \in Keys \ {MetaFilename} :
                          (Hashed(files, k) /\ Exists(store, id, k)) =>
                              IF HashMatches(files, op[p].dst0, k)
                              THEN Gets(l, k) = {} /\ fs[p].dst.files[k] = op[p].dst0.files[k]
                              ELSE /\ Cardinality(Gets(l, k)) = 1
                                   /\ fs[p].dst.files[k] = store[id][k]

\* A Download succeeded over a directory in which one hashed file was missing, the index
\* had another content and one chunk file matched: the first two were fetched.
C20_Witness ==
    \E p \in Procs :
        /\ op[p].kind = "Download" /\ result[p] = "ok"
        /\ \A k \in ChunkKeys \cup {IndexFilename} : Hashed(StoredManifest(op[p].id), k)
        /\ op[p].dst0.files["chunks/000001"] = Absent
        /\ op[p].dst0.files[IndexFilename] = Data("bb")
        /\ HashMatches(StoredManifest(op[p].id), op[p].dst0, "chunks/000002")
        /\ Cardinality(Gets(log[p], "chunks/000001")) = 1
        /\ Cardinality(Gets(log[p], IndexFilename)) = 1
        /\ Gets(log[p], "chunks/000002") = {}
        /\ fs[p].dst.files[IndexFilename] = Data("a")

\* C21: after every successful Download the directory <destDir>/chunks exists, also when
\* the store holds no object under <id>/chunks/: it is then created empty.
C21_ChunksDirExists ==
    \A p \in Procs :
        (op[p].kind = "Download" /\ result[p] = "ok") => fs[p].dst.chunksDir

\* A block without chunk files came down into a directory that had no chunks directory:
\* the directory is there and empty.
C21_Witness ==
    \E p \in Procs :
        /\ op[p].kind = "Download" /\ result[p] = "ok"
        /\ IterChunks(store, op[p].id) = {}
        /\ ~op[p].dst0.chunksDir
        /\ fs[p].dst.chunksDir
        /\ \A c \in ChunkKeys : fs[p].dst.files[c] = Absent

----------------------------------------------------------------------------
(* Properties of a Download over an earlier one (specification SpecStale). *)

\* The manifest of a descriptor object, empty when it has none or cannot be read.
ManifestOf(obj) ==
    IF obj.kind = "meta" /\ obj.doc.files.present THEN obj.doc.files.list ELSE <<>>

\* C22: in a Download the get of meta.json is the first store call and comes before every
\* skip decision: the ignore-set is computed from the manifest of the meta.json this call
\* has fetched, whatever meta.json the directory held before; and when the fetch or the
\* decoding fails, nothing is skipped or hashed and no other object is fetched.
C22_FetchBeforeSkip ==
    \A p \in Procs :
        op[p].kind = "Download" =>
            LET id == op[p].id
                l == log[p]
            IN  /\ \A i \in 1..Len(l) : (i = 1) <=> (l[i].key = MetaFilename)
                /\ l # <<>> => l[1].call = "get"
                /\ result[p] \in {"create dir", "get meta.json", "reading meta"} =>
                      /\ Len(l) <= 1
                      /\ loc[p].ignored = {}
                      /\ \A k \in Keys \ {MetaFilename} :
                            fs[p].dst.files[k] = op[p].dst0.files[k]
                /\ Len(l) >= 2 =>
                      /\ l[1].ok
                      /\ fs[p].dst.files[MetaFilename] = store[id][MetaFilename]
                /\ pc[p] \in {"downloadDir", "downloadEntries"} =>
                      loc[p].ignored =
                          {MetaFilename} \cup
                              {k \in Keys : HashMatches(StoredManifest(id), op[p].dst0, k)}

\* A directory whose stale meta.json records the hash of its index, an index the stored
\* manifest does not match: the Download fetched the descriptor and then the index.
C22_Witness ==
    \E p \in Procs :
        /\ op[p].kind = "Download" /\ result[p] = "ok"
        /\ op[p].dst0.files[MetaFilename].kind = "meta"
        /\ HashMatches(ManifestOf(op[p].dst0.files[MetaFilename]), op[p].dst0, IndexFilename)
        /\ ~HashMatches(StoredManifest(op[p].id), op[p].dst0, IndexFilename)
        /\ HashMatches(StoredManifest(op[p].id), op[p].dst0, "chunks/000001")
        /\ Cardinality(Gets(log[p], IndexFilename)) = 1
        /\ Gets(log[p], "chunks/000001") = {}
        /\ fs[p].dst.files[IndexFilename] = Data("a")

----------------------------------------------------------------------------
(* Further properties of Delete (specification SpecDelete). *)

\* C23: when a Delete running alone has returned success, no object of the block is left
\* in the store, at the top of the prefix or under chunks/: the recursive pass has listed
\* the chunks sub-prefix and deleted every chunk that was there at the call.
C23_DeleteLeavesNothing ==
    \A p \in Procs :
        (op[p].kind = "Delete" /\ result[p] = "ok") =>
            /\ \A k \in Keys : ~Exists(store, op[p].id, k)
            /\ \A c \in ChunkKeys :
                  Exists(prev[p].store, op[p].id, c) =>
                      /\ Done(log[p], "iter", ChunksDirname) # {}
                      /\ Done(log[p], "delete", c) # {}

\* A block with every object, both chunks and the three marks included, was deleted.
C23_Witness ==
    \E p \in Procs :
        /\ op[p].kind = "Delete" /\ result[p] = "ok"
        /\ \A k \in Keys : Deleted(p, k)
        /\ Done(log[p], "iter", ChunksDirname) # {}

----------------------------------------------------------------------------
(* Properties of Delete on a store with stale listings (specification SpecDeleteStale). *)

\* The positions of the delete calls on key k, failed ones included.
DeleteCalls(l, k) == {i \in 1..Len(l) : l[i].call = "delete" /\ l[i].key = k}

\* C24: in one Delete no object is the target of two delete calls; a delete of meta.json
\* or of deletion-mark.json is the call right after a successful existence check of that
\* name which found it, so the recursive pass deletes neither, not even when the listing
\* is stale and still names the meta.json this Delete has removed.
C24_AtMostOneDelete ==
    \A p \in Procs :
        op[p].kind = "Delete" =>
            LET l == log[p]
            IN  /\ \A k \in Keys : Cardinality(DeleteCalls(l, k)) <= 1
                /\ \A k \in {MetaFilename, DeletionMarkFilename} :
                      \A i \in DeleteCalls(l, k) :
                          /\ i > 1
                          /\ l[i - 1].call = "exists" /\ l[i - 1].key = k /\ l[i - 1].ok
                          /\ Exists(prev[p].store, op[p].id, k)
                /\ DeleteCalls(l, MetaFilename) \subseteq {2}

\* A stale listing named the meta.json this Delete had removed: the recursive pass has
\* deleted everything else it was to delete and has only the kept names before it.
C24_Witness ==
    \E p \in Procs :
        /\ op[p].kind = "Delete" /\ pc[p] = "deleteEntries"
        /\ Done(log[p], "delete", MetaFilename) # {}
        /\ ~Exists(store, op[p].id, MetaFilename)
        /\ loc[p].todo = {MetaFilename, DeletionMarkFilename} /\ loc[p].sub = {}
        /\ \A k \in Keys \ {MetaFilename, DeletionMarkFilename} : Deleted(p, k)

----------------------------------------------------------------------------
(* Properties of the file stat collector (specification SpecStats). *)

\* files is the manifest of directory dir under hash function hf: ascending by path, one
\* entry per entry of the chunks directory, one for the index, one for meta.json; the
\* meta.json entry without size and hash, the others with their size and, exactly when a
\* hash function is set and the entry is no directory, with their hash.
ManifestFor(files, dir, hf) ==
    /\ \A i, j \in 1..Len(files) : i < j => Rank(files[i].relPath) < Rank(files[j].relPath)
    /\ {files[i].relPath : i \in 1..Len(files)} =
           LocalChunks(dir) \cup {IndexFilename, MetaFilename}
    /\ \A i \in 1..Len(files) :
          LET f == files[i]
              e == dir.files[f.relPath]
          IN  IF f.relPath = MetaFilename
              THEN f.sizeBytes = 0 /\ f.hash.isNil
              ELSE /\ f.sizeBytes = SizeOfEntry(e)
                   /\ ~f.hash.isNil <=> (hf # NoneFunc /\ e.kind # "dir")
                   /\ ~f.hash.isNil =>
                          f.hash = [isNil |-> FALSE, func |-> hf, value |-> Sha256Of(e.bytes)]

\* C25: a GatherFileStats that succeeds returns the manifest of the directory, and so is
\* the files list of a descriptor Upload has stored; when the chunks directory cannot be
\* read, or index or meta.json cannot be stat'ed, it fails and returns no manifest.
C25_ManifestShape ==
    \A p \in Procs :
        /\ op[p].kind = "GatherFileStats" =>
              /\ result[p] = "ok" => ManifestFor(loc[p].meta.files, fs[p].src, op[p].hf)
              /\ (\/ ~fs[p].src.chunksDir
                  \/ fs[p].src.files[IndexFilename] = Absent
                  \/ fs[p].src.files[MetaFilename] = Absent) =>
                    /\ result[p] \in {"read dir chunks", "stat index", "stat meta.json"}
                    /\ loc[p].meta.files = <<>>
        /\ (op[p].kind = "Upload" /\ Done(log[p], "upload", MetaFilename) # {}) =>
              ManifestFor(ManifestOf(store[op[p].id][MetaFilename]), fs[p].src, op[p].hf)

\* The collector hashed a chunk file and the index and met a directory among the chunks,
\* and an Upload has stored a descriptor with a hashed manifest.
C25_Witness ==
    /\ op["p1"].kind = "GatherFileStats" /\ result["p1"] = "ok"
    /\ op["p1"].hf = SHA256Func
    /\ fs["p1"].src.files["chunks/000001"] = Data("a")
    /\ fs["p1"].src.files["chunks/000002"] = Subdir
    /\ Len(loc["p1"].meta.files) = 4
    /\ op["p2"].kind = "Upload" /\ result["p2"] = "ok" /\ op["p2"].hf = SHA256Func
    /\ Len(ManifestOf(store["B1"][MetaFilename])) = 4

----------------------------------------------------------------------------
(* Further properties of Upload (specification Spec). *)

\* C26: when an Upload has returned an error, the objects it had written under the block
\* prefix are gone from the store again.
C26_CleanupOnError ==
    \A p \in Procs :
        (op[p].kind = "Upload" /\ pc[p] = "idle" /\ IsError(result[p])) =>
            \A k \in Keys :
                Done(log[p], "upload", k) # {} => ~Exists(store, op[p].id, k)

----------------------------------------------------------------------------
(* Properties of an Upload and a Delete of one block at once (specification
   SpecUploadDelete). *)

\* meta.json of B1 is in the store and the index or a chunk file of the block is not.
MetaWithoutContent ==
    /\ Exists(store, "B1", MetaFilename)
    /\ \E k \in LocalChunks(LocalBlock("B1")) \cup {IndexFilename} : ~Exists(store, "B1", k)

\* C27 as stated: with an Upload and a Delete of block B1 interleaved, meta.json in the
\* store implies the index and every chunk file of the block in the store.
C27_MetaImpliesContentUnderRace == ~MetaWithoutContent

\* C27, amended: meta.json is in the store without the index or a chunk file only when
\* the two operations have overlapped: the Delete has deleted a content object and the
\* Upload has put its meta.json. Each operation alone keeps the invariant.
C27_BrokenOnlyByOverlap ==
    MetaWithoutContent =>
        /\ op["p2"].kind = "Delete"
        /\ \E k \in ContentKeys : Done(log["p2"], "delete", k) # {}
        /\ op["p1"].kind = "Upload"
        /\ Done(log["p1"], "upload", MetaFilename) # {}

\* Both have returned success and the store holds meta.json of the block and neither its
\* index nor its chunk file.
C27_Witness ==
    /\ result["p1"] = "ok" /\ result["p2"] = "ok"
    /\ op["p1"].kind = "Upload" /\ op["p2"].kind = "Delete"
    /\ Exists(store, "B1", MetaFilename)
    /\ \A k \in ContentKeys : ~Exists(store, "B1", k)

----------------------------------------------------------------------------
(* Properties of two Uploads of one block at once (specification SpecUploadRace). *)

\* The Upload of p has put its meta.json.
MetaUploaded(p) == op[p].kind = "Upload" /\ Done(log[p], "upload", MetaFilename) # {}

\* In every state: a stored meta.json is the descriptor one of the Uploads has put, its
\* index and every chunk file its manifest names are in the store, and of two Uploads
\* that have put their meta.json at different times the later one's is stored.
UploadRaceState ==
    /\ Exists(store, "B1", MetaFilename) <=> \E p \in Procs : MetaUploaded(p)
    /\ Exists(store, "B1", MetaFilename) =>
          LET files == ManifestOf(store["B1"][MetaFilename])
          IN  /\ \E p \in Procs :
                    MetaUploaded(p) /\ store["B1"][MetaFilename] = Write(loc[p].meta)
              /\ Exists(store, "B1", IndexFilename)
              /\ \A i \in 1..Len(files) :
                    files[i].relPath \in ContentKeys => Exists(store, "B1", files[i].relPath)
    /\ \A p, q \in Procs :
          (MetaUploaded(p) /\ MetaUploaded(q)
               /\ loc[p].meta.uploadTime < loc[q].meta.uploadTime) =>
              store["B1"][MetaFilename] = Write(loc[q].meta)

\* In every step: a successful upload of meta.json stores the descriptor of the Upload
\* that makes it, over the one that was there, and nothing else changes meta.json.
UploadRaceStep ==
    /\ \A p \in Procs :
          (/\ Len(log'[p]) = Len(log[p]) + 1
           /\ log'[p][Len(log'[p])] = Call("upload", "B1", MetaFilename, TRUE)) =>
              store'["B1"][MetaFilename] = Write(loc'[p].meta)
    /\ store'["B1"][MetaFilename] # store["B1"][MetaFilename] =>
          \E p \in Procs :
              /\ Len(log'[p]) = Len(log[p]) + 1
              /\ log'[p][Len(log'[p])] = Call("upload", "B1", MetaFilename, TRUE)

----------------------------------------------------------------------------
(* Further properties of the local descriptor file (specification SpecLocalMeta). *)

\* The file system calls of a WriteToDir that runs to its end.
WriteToDirCalls == <<"create", "write", "sync", "close", "removeAll", "rename", "syncDir">>

\* C29: the calls of a WriteToDir are, in this order, the creation and writing of the
\* temporary file, its sync, its close, the removal of the target and the rename onto
\* it, and the sync of the parent directory, each made only when the one before has
\* succeeded: so no rename without a successful sync of the temporary file, and success
\* only with a successful directory sync; until the target is removed for the rename, and
\* so whenever the writing or the file sync has failed, the target is what it was.
C29_WriteToDirOrder ==
    \A p \in Procs :
        op[p].kind = "WriteToDir" =>
            LET l == log[p]
                target == fs[p].src.files[MetaFilename]
            IN  /\ Len(l) \in 1..Len(WriteToDirCalls)
                /\ \A i \in 1..Len(l) :
                      /\ l[i].call = WriteToDirCalls[i]
                      /\ i < Len(l) => l[i].ok
                /\ Done(l, "rename", MetaFilename) # {} =>
                      /\ Done(l, "sync", TmpFilename) # {}
                      /\ target = Write(op[p].meta)
                /\ result[p] = "ok" => Done(l, "syncDir", "") # {}
                /\ pc[p] = "idle" => (result[p] = "ok" <=> (Len(l) = 7 /\ l[7].ok))
                /\ Done(l, "removeAll", MetaFilename) = {} => target = op[p].old
                /\ result[p] \in {"create tmp", "write tmp", "sync tmp", "close tmp"} =>
                      target = op[p].old

\* A WriteToDir over an existing descriptor made its seven calls and returned success, the
\* target now the new encoding.
C29_Witness ==
    \E p \in Procs :
        /\ op[p].kind = "WriteToDir" /\ result[p] = "ok"
        /\ Len(log[p]) = 7
        /\ op[p].old.kind = "meta"
        /\ op[p].old # Write(op[p].meta)
        /\ fs[p].src.files[MetaFilename] = Write(op[p].meta)

====
